---- MODULE Spec2Model ----
(***************************************************************************)
(* Conversation state machine of smart_whatsapping                         *)
(* (src/conversation_state.py) on top of the Redis wrapper                 *)
(* (src/redis_manager.py).                                                 *)
(*                                                                         *)
(* Every request is a call stack of frames.  A frame is one activation of  *)
(* a Python method; it advances from one store round trip to the next, so  *)
(* that two requests may interleave exactly where the code talks to Redis. *)
(* Python values: a dict is a function with a finite domain of strings, a  *)
(* list is a sequence, None in a string-valued field is the value None,    *)
(* None in place of a dict is NoState.  A dotted key path "a.b" is the     *)
(* sequence of its parts <<"a", "b">>.                                     *)
(***************************************************************************)
EXTENDS Integers, Sequences, FiniteSets, TLC

VARIABLES
    store,          \* Redis: key -> [json, ttl], only the live keys
    now,            \* wall clock, in seconds
    uuid_next,      \* source of fresh uuid4 values
    is_connected,   \* RedisManager.is_connected
    server_up,      \* whether the Redis server answers
    stack,          \* per request: the call stack, innermost frame last
    call,           \* per request: the public call in progress or just returned
    expired,        \* keys evicted by TTL and not written since
    customers,      \* NewCustomerManager.customers
    next_id,        \* NewCustomerManager.next_id
    resolved,       \* the last call of new_find_or_create_customer
    orders,         \* NewCustomerManager.orders
    recalculated,   \* the customer whose totals the last call recalculated, else 0
    redis_call,     \* the last call of RedisManager made by its own test
    db_customers,   \* the committed rows of the customers table
    db_messages,    \* the committed rows of the messages table
    db_resolved,    \* the last call of database.find_or_create_customer
    db_session,     \* the webhook handling in progress and its uncommitted rows
    cart_items,     \* the rows of the cart_items table
    campaign_sends, \* the rows of the campaign_sends table
    utcnow          \* datetime.utcnow(), in minutes

\* the relational side: customers, carts and campaigns
dbvars == <<customers, next_id, resolved, orders, recalculated, redis_call, db_customers, db_messages, db_resolved,
            db_session, cart_items, campaign_sends, utcnow>>

vars == <<store, now, uuid_next, is_connected, server_up, stack, call, expired, dbvars>>

(***************************************************************************)
(* Bounds of the model and constants of the program                        *)
(***************************************************************************)
session_timeout == 1800
TickSeconds == 600
MaxTicks == 3
MaxSessions == 3
MaxFlows == 2

Customers == {"cust_1", "cust_2"}
Flows == {"support", "product_search"}
Outcomes == {"completed", "resolved"}
Procs == {1, 2}

None == "None"
NoState == [none |-> TRUE]
EmptyDict == [k \in {} |-> None]

(***************************************************************************)
(* Pure helpers                                                            *)
(***************************************************************************)
get_conversation_key(customer_id) == <<"conversation", customer_id>>

Keys == {get_conversation_key(c) : c \in Customers}

IsoFormat(t) == <<"iso", t>>

SessionId(u) == <<"sess", u>>

\* Python truthiness of an Optional[dict]
TruthyDict(d) == d # NoState /\ DOMAIN d # {}

\* Python truthiness of an Optional[str]
TruthyStr(s) == s # None /\ s # ""

\* json.dumps(data, default=str) / json.loads: the session documents hold only
\* JSON-native values (str, int, null, dict with str keys, list)
JsonDumps(data) == [text |-> data]

JsonLoads(json_data) == json_data.text

NewState(customer_id, session_id, t) ==
    [ customer_id    |-> customer_id,
      session_id     |-> session_id,
      current_flow   |-> None,
      current_step   |-> None,
      collected_data |-> EmptyDict,
      flow_history   |-> <<>>,
      metadata       |-> [ created_at            |-> IsoFormat(t),
                           last_activity         |-> IsoFormat(t),
                           message_count         |-> 0,
                           total_flows_started   |-> 0,
                           total_flows_completed |-> 0 ] ]

\* target[k] = v on a dict
DictSet(d, k, v) == [x \in DOMAIN d \cup {k} |-> IF x = k THEN v ELSE d[x]]

\* variant: a dotted path replaces the sub-map by one holding only the new key
SetPath_Replace(target, parts, value) ==
    IF Len(parts) = 1
    THEN DictSet(target, parts[1], value)
    ELSE DictSet(target, parts[1], DictSet(EmptyDict, parts[2], value))

\* one entry of the updates dict applied to the state (lines 122-134)
RECURSIVE SetPath(_, _, _)
SetPath(target, parts, value) ==
    IF Len(parts) = 1
    THEN DictSet(target, parts[1], value)
    ELSE LET sub == IF parts[1] \in DOMAIN target THEN target[parts[1]] ELSE EmptyDict
         IN  DictSet(target, parts[1], SetPath(sub, Tail(parts), value))

\* the whole updates dict, in insertion order
RECURSIVE ApplyUpdates(_, _)
ApplyUpdates(state, updates) ==
    IF updates = <<>>
    THEN state
    ELSE ApplyUpdates(SetPath(state, updates[1][1], updates[1][2]), Tail(updates))

\* state["metadata"]["last_activity"] = datetime.now().isoformat()
Touch(state, t) ==
    [state EXCEPT !.metadata = DictSet(@, "last_activity", IsoFormat(t))]

(***************************************************************************)
(* RedisManager: set_data / get_data / delete_data                         *)
(***************************************************************************)
\* a store call succeeds when the manager is connected and the client does not raise
StoreAvailable == is_connected /\ server_up

set_data_result == StoreAvailable

\* variant: the TTL handed to Redis in the wrong unit, so the key outlives it
set_data_store_Minutes(key, data, ttl) ==
    IF StoreAvailable
    THEN [k \in DOMAIN store \cup {key} |->
            IF k = key THEN [json |-> JsonDumps(data), ttl |-> ttl * 60] ELSE store[k]]
    ELSE store

set_data_store(key, data, ttl) ==
    IF StoreAvailable
    THEN [k \in DOMAIN store \cup {key} |->
            IF k = key THEN [json |-> JsonDumps(data), ttl |-> ttl] ELSE store[k]]
    ELSE store

get_data(key) ==
    IF StoreAvailable /\ key \in DOMAIN store
    THEN JsonLoads(store[key].json)
    ELSE NoState

delete_data_result(key) == StoreAvailable /\ key \in DOMAIN store

\* variant: DEL reports the key deleted and leaves it in place
delete_data_store_Keep(key) == store

delete_data_store(key) ==
    IF StoreAvailable
    THEN [k \in DOMAIN store \ {key} |-> store[k]]
    ELSE store

(***************************************************************************)
(* Requests: call stacks and the record of the public call                 *)
(***************************************************************************)
EmptyStore == [k \in {} |-> NoState]

NoPrev == [op |-> "none", cust |-> "none", ret |-> NoState]

\* the calls a following call is told about
Remembered == {"create_new_session", "clear_session"}

IdleCall ==
    [ op |-> "none", cust |-> "none", arg |-> None, status |-> "idle",
      pre |-> EmptyStore, seen |-> NoState, ret |-> NoState,
      unavail |-> FALSE, prev |-> NoPrev ]

Frame(fn, cust, arg) ==
    [fn |-> fn, pc |-> "start", cust |-> cust, arg |-> arg, state |-> NoState, ret |-> NoState]

Top(p) == stack[p][Len(stack[p])]

At(p, fn, pc) == stack[p] # <<>> /\ Top(p).fn = fn /\ Top(p).pc = pc

Idle(p) == stack[p] = <<>>

\* the call record after a step; a step that made a store call notes whether it failed
Noted(p, storeop) ==
    IF storeop THEN [call[p] EXCEPT !.unavail = @ /\ ~StoreAvailable] ELSE call[p]

\* the public method op is entered by request p
Invoke(p, op, cust, arg) ==
    /\ Idle(p)
    /\ stack' = [stack EXCEPT ![p] = <<Frame(op, cust, arg)>>]
    /\ call' = [call EXCEPT ![p] =
            [ op |-> op, cust |-> cust, arg |-> arg, status |-> "running",
              pre |-> store, seen |-> NoState, ret |-> NoState, unavail |-> TRUE,
              prev |-> IF call[p].status = "returned" /\ call[p].op \in Remembered
                       THEN [op |-> call[p].op, cust |-> call[p].cust, ret |-> call[p].ret]
                       ELSE NoPrev ]]

\* return v from the innermost frame
Return(p, v, storeop) ==
    IF Len(stack[p]) = 1
    THEN /\ stack' = [stack EXCEPT ![p] = <<>>]
         /\ call' = [call EXCEPT ![p] =
                [Noted(p, storeop) EXCEPT !.status = "returned", !.ret = v]]
    ELSE /\ stack' = [stack EXCEPT ![p] =
                Append(SubSeq(@, 1, Len(@) - 2), [@[Len(@) - 1] EXCEPT !.ret = v])]
         /\ call' = [call EXCEPT ![p] = Noted(p, storeop)]

\* stay in the innermost frame, at label pc, holding the state just loaded
Goto(p, pc, state, storeop) ==
    /\ stack' = [stack EXCEPT ![p] = [@ EXCEPT ![Len(@)] = [@ EXCEPT !.pc = pc, !.state = state]]]
    /\ call' = [call EXCEPT ![p] = [Noted(p, storeop) EXCEPT !.seen = state]]

\* call a method; the caller resumes at label cont with the result in ret
Push(p, cont, frame) ==
    /\ stack' = [stack EXCEPT ![p] = Append([@ EXCEPT ![Len(@)] = [@ EXCEPT !.pc = cont]], frame)]
    /\ UNCHANGED call

\* `return self.method(...)`: the callee's result is the caller's result
TailCall(p, frame) ==
    /\ stack' = [stack EXCEPT ![p] = [@ EXCEPT ![Len(@)] = frame]]
    /\ UNCHANGED call

(***************************************************************************)
(* ConversationState                                                       *)
(***************************************************************************)
\* variant: a session that already exists is kept (SET ... NX)
create_new_session_set_KeepExisting(p) ==
    /\ At(p, "create_new_session", "start")
    /\ LET f == Top(p)
           new_state == NewState(f.cust, SessionId(uuid_next), now)
           key == get_conversation_key(f.cust)
           st == IF key \in DOMAIN store THEN store
                 ELSE set_data_store(key, new_state, session_timeout)
       IN  /\ store' = st
           /\ expired' = IF set_data_result THEN expired \ {key} ELSE expired
           /\ Return(p, new_state, TRUE)
    /\ uuid_next' = uuid_next + 1
    /\ UNCHANGED <<now, is_connected, server_up, dbvars>>

\* variant: the state returned carries another session id than the one stored
create_new_session_set_TwoIds(p) ==
    /\ At(p, "create_new_session", "start")
    /\ LET f == Top(p)
           key == get_conversation_key(f.cust)
           st == set_data_store(key, NewState(f.cust, SessionId(uuid_next), now), session_timeout)
       IN  /\ store' = st
           /\ expired' = IF set_data_result THEN expired \ {key} ELSE expired
           /\ Return(p, NewState(f.cust, SessionId(uuid_next + 1), now), TRUE)
    /\ uuid_next' = uuid_next + 1
    /\ UNCHANGED <<now, is_connected, server_up, dbvars>>

create_new_session_set(p) ==
    /\ At(p, "create_new_session", "start")
    /\ LET f == Top(p)
           new_state == NewState(f.cust, SessionId(uuid_next), now)
           key == get_conversation_key(f.cust)
           st == set_data_store(key, new_state, session_timeout)
       IN  /\ store' = st
           /\ expired' = IF set_data_result THEN expired \ {key} ELSE expired
           /\ Return(p, new_state, TRUE)
    /\ uuid_next' = uuid_next + 1
    /\ UNCHANGED <<now, is_connected, server_up, dbvars>>

get_state_get(p) ==
    /\ At(p, "get_state", "start")
    /\ LET state == get_data(get_conversation_key(Top(p).cust))
       IN  IF TruthyDict(state)
           THEN Goto(p, "set_data", state, TRUE)
           ELSE Return(p, state, TRUE)
    /\ UNCHANGED <<store, now, uuid_next, is_connected, server_up, expired, dbvars>>

\* variant: the state is written back with the TTL it had left (absolute expiry)
get_state_set_KeepTtl(p) ==
    /\ At(p, "get_state", "set_data")
    /\ LET f == Top(p)
           key == get_conversation_key(f.cust)
           state == Touch(f.state, now)
           left == IF key \in DOMAIN store THEN store[key].ttl ELSE session_timeout
           st == set_data_store(key, state, left)
       IN  /\ store' = st
           /\ expired' = IF set_data_result THEN expired \ {key} ELSE expired
           /\ Return(p, state, TRUE)
    /\ UNCHANGED <<now, uuid_next, is_connected, server_up, dbvars>>

get_state_set(p) ==
    /\ At(p, "get_state", "set_data")
    /\ LET f == Top(p)
           key == get_conversation_key(f.cust)
           state == Touch(f.state, now)
           st == set_data_store(key, state, session_timeout)
       IN  /\ store' = st
           /\ expired' = IF set_data_result THEN expired \ {key} ELSE expired
           /\ Return(p, state, TRUE)
    /\ UNCHANGED <<now, uuid_next, is_connected, server_up, dbvars>>

\* variant: a missing session is created on the fly instead of refused
update_state_get_Upsert(p) ==
    /\ At(p, "update_state", "start")
    /\ LET current_state == get_data(get_conversation_key(Top(p).cust))
       IN  IF ~TruthyDict(current_state)
           THEN Goto(p, "set_data", NewState(Top(p).cust, SessionId(uuid_next), now), TRUE)
           ELSE Goto(p, "set_data", current_state, TRUE)
    /\ UNCHANGED <<store, now, uuid_next, is_connected, server_up, expired, dbvars>>

update_state_get(p) ==
    /\ At(p, "update_state", "start")
    /\ LET current_state == get_data(get_conversation_key(Top(p).cust))
       IN  IF ~TruthyDict(current_state)
           THEN Return(p, FALSE, TRUE)
           ELSE Goto(p, "set_data", current_state, TRUE)
    /\ UNCHANGED <<store, now, uuid_next, is_connected, server_up, expired, dbvars>>

\* variant: the updates are applied to the session as stored at write time
update_state_set_Reread(p) ==
    /\ At(p, "update_state", "set_data")
    /\ LET f == Top(p)
           redis_key == get_conversation_key(f.cust)
           fresh == get_data(redis_key)
           current_state == Touch(ApplyUpdates(IF TruthyDict(fresh) THEN fresh ELSE f.state,
                                               f.arg), now)
           st == set_data_store(redis_key, current_state, session_timeout)
       IN  /\ store' = st
           /\ expired' = IF set_data_result THEN expired \ {redis_key} ELSE expired
           /\ Return(p, set_data_result, TRUE)
    /\ UNCHANGED <<now, uuid_next, is_connected, server_up, dbvars>>

update_state_set(p) ==
    /\ At(p, "update_state", "set_data")
    /\ LET f == Top(p)
           redis_key == get_conversation_key(f.cust)
           current_state == Touch(ApplyUpdates(f.state, f.arg), now)
           st == set_data_store(redis_key, current_state, session_timeout)
       IN  /\ store' = st
           /\ expired' = IF set_data_result THEN expired \ {redis_key} ELSE expired
           /\ Return(p, set_data_result, TRUE)
    /\ UNCHANGED <<now, uuid_next, is_connected, server_up, dbvars>>

\* variant: the counter is written back without the increment
StartFlowUpdates_NoIncrement(flow_name, started) ==
    << << <<"current_flow">>, flow_name >>,
       << <<"current_step">>, "flow_started" >>,
       << <<"collected_data">>, EmptyDict >>,
       << <<"metadata", "total_flows_started">>, started - 1 >> >>

\* variant: the data collected by the flow in progress is kept for the new flow
StartFlowUpdates_KeepData(flow_name, started) ==
    << << <<"current_flow">>, flow_name >>,
       << <<"current_step">>, "flow_started" >>,
       << <<"metadata", "total_flows_started">>, started >> >>

\* the updates dict of start_flow with its counter filled in
StartFlowUpdates(flow_name, started) ==
    << << <<"current_flow">>, flow_name >>,
       << <<"current_step">>, "flow_started" >>,
       << <<"collected_data">>, EmptyDict >>,
       << <<"metadata", "total_flows_started">>, started >> >>

start_flow_start(p) ==
    /\ At(p, "start_flow", "start")
    /\ Push(p, "got_state", Frame("get_state", Top(p).cust, None))
    /\ UNCHANGED <<store, now, uuid_next, is_connected, server_up, expired, dbvars>>

start_flow_got_state(p) ==
    /\ At(p, "start_flow", "got_state")
    /\ LET f == Top(p)
           current_state == f.ret
       IN  IF TruthyDict(current_state)
           THEN TailCall(p, Frame("update_state", f.cust,
                    StartFlowUpdates(f.arg, current_state.metadata.total_flows_started + 1)))
           ELSE Push(p, "created", Frame("create_new_session", f.cust, None))
    /\ UNCHANGED <<store, now, uuid_next, is_connected, server_up, expired, dbvars>>

start_flow_created(p) ==
    /\ At(p, "start_flow", "created")
    /\ TailCall(p, Frame("update_state", Top(p).cust, StartFlowUpdates(Top(p).arg, 1)))
    /\ UNCHANGED <<store, now, uuid_next, is_connected, server_up, expired, dbvars>>

\* variant: the snapshot is taken after collected_data was reset
FlowRecord_AfterReset(current_state, outcome, t) ==
    [ flow           |-> current_state.current_flow,
      outcome        |-> outcome,
      completed_at   |-> IsoFormat(t),
      data_collected |-> EmptyDict ]

\* the record complete_flow appends to flow_history
FlowRecord(current_state, outcome, t) ==
    [ flow           |-> current_state.current_flow,
      outcome        |-> outcome,
      completed_at   |-> IsoFormat(t),
      data_collected |-> current_state.collected_data ]

\* variant: the record is appended and the counter of completed flows left as it was
CompleteFlowUpdates_NoCount(current_state, outcome, t) ==
    << << <<"current_flow">>, None >>,
       << <<"current_step">>, None >>,
       << <<"collected_data">>, EmptyDict >>,
       << <<"flow_history">>,
          Append(current_state.flow_history, FlowRecord(current_state, outcome, t)) >>,
       << <<"metadata", "total_flows_completed">>,
          current_state.metadata.total_flows_completed >> >>

CompleteFlowUpdates(current_state, outcome, t) ==
    << << <<"current_flow">>, None >>,
       << <<"current_step">>, None >>,
       << <<"collected_data">>, EmptyDict >>,
       << <<"flow_history">>,
          Append(current_state.flow_history, FlowRecord(current_state, outcome, t)) >>,
       << <<"metadata", "total_flows_completed">>,
          current_state.metadata.total_flows_completed + 1 >> >>

complete_flow_start(p) ==
    /\ At(p, "complete_flow", "start")
    /\ Push(p, "got_state", Frame("get_state", Top(p).cust, None))
    /\ UNCHANGED <<store, now, uuid_next, is_connected, server_up, expired, dbvars>>

\* variant: only the session is checked for, not its active flow
complete_flow_got_state_NoFlowCheck(p) ==
    /\ At(p, "complete_flow", "got_state")
    /\ LET f == Top(p)
           current_state == f.ret
       IN  IF ~TruthyDict(current_state)
           THEN Return(p, FALSE, FALSE)
           ELSE TailCall(p, Frame("update_state", f.cust,
                    CompleteFlowUpdates(current_state, f.arg, now)))
    /\ UNCHANGED <<store, now, uuid_next, is_connected, server_up, expired, dbvars>>

complete_flow_got_state(p) ==
    /\ At(p, "complete_flow", "got_state")
    /\ LET f == Top(p)
           current_state == f.ret
       IN  IF ~TruthyDict(current_state) \/ ~TruthyStr(current_state.current_flow)
           THEN Return(p, FALSE, FALSE)
           ELSE TailCall(p, Frame("update_state", f.cust,
                    CompleteFlowUpdates(current_state, f.arg, now)))
    /\ UNCHANGED <<store, now, uuid_next, is_connected, server_up, expired, dbvars>>

clear_session_delete(p) ==
    /\ At(p, "clear_session", "start")
    /\ LET key == get_conversation_key(Top(p).cust)
           st == delete_data_store(key)
       IN  /\ store' = st
           /\ Return(p, delete_data_result(key), TRUE)
    /\ UNCHANGED <<now, uuid_next, is_connected, server_up, expired, dbvars>>

\* variant: the check goes through get_state, which writes the session back
has_active_session_get_ViaGetState(p) ==
    /\ At(p, "has_active_session", "start")
    /\ LET key == get_conversation_key(Top(p).cust)
           state == get_data(key)
           st == IF TruthyDict(state)
                 THEN set_data_store(key, Touch(state, now), session_timeout)
                 ELSE store
       IN  /\ store' = st
           /\ Return(p, state # NoState, TRUE)
    /\ UNCHANGED <<now, uuid_next, is_connected, server_up, expired, dbvars>>

has_active_session_get(p) ==
    /\ At(p, "has_active_session", "start")
    /\ Return(p, get_data(get_conversation_key(Top(p).cust)) # NoState, TRUE)
    /\ UNCHANGED <<store, now, uuid_next, is_connected, server_up, expired, dbvars>>

get_or_create_state_start(p) ==
    /\ At(p, "get_or_create_state", "start")
    /\ Push(p, "got_state", Frame("get_state", Top(p).cust, None))
    /\ UNCHANGED <<store, now, uuid_next, is_connected, server_up, expired, dbvars>>

get_or_create_state_got_state(p) ==
    /\ At(p, "get_or_create_state", "got_state")
    /\ IF Top(p).ret = NoState
       THEN TailCall(p, Frame("create_new_session", Top(p).cust, None))
       ELSE Return(p, Top(p).ret, FALSE)
    /\ UNCHANGED <<store, now, uuid_next, is_connected, server_up, expired, dbvars>>

\* one step of the code of request p
Step(p) ==
    \/ create_new_session_set(p)
    \/ get_state_get(p)
    \/ get_state_set(p)
    \/ update_state_get(p)
    \/ update_state_set(p)
    \/ start_flow_start(p)
    \/ start_flow_got_state(p)
    \/ start_flow_created(p)
    \/ complete_flow_start(p)
    \/ complete_flow_got_state(p)
    \/ clear_session_delete(p)
    \/ has_active_session_get(p)
    \/ get_or_create_state_start(p)
    \/ get_or_create_state_got_state(p)

(***************************************************************************)
(* The callers: public calls with their arguments                          *)
(***************************************************************************)
\* updates dicts passed to update_state directly: the one of the module's own
\* test, the one of the specification's example, and a dotted path whose
\* first part is not yet a key of the session
UpdateTest ==
    << << <<"current_step">>, "issue_type" >>,
       << <<"collected_data">>, [issue |-> "order_problem"] >>,
       << <<"metadata", "message_count">>, 3 >> >>

UpdateNested == << << <<"context", "channel">>, "whatsapp" >> >>

UpdateChoices == {UpdateTest, UpdateNested}

Session(st, c) == JsonLoads(st[get_conversation_key(c)].json)

HasSession(st, c) == get_conversation_key(c) \in DOMAIN st

call_create_new_session(p, Cs) ==
    /\ uuid_next <= MaxSessions
    /\ \E c \in Cs : Invoke(p, "create_new_session", c, None)
    /\ UNCHANGED <<store, now, uuid_next, is_connected, server_up, expired, dbvars>>

call_get_state(p, Cs) ==
    /\ \E c \in Cs : Invoke(p, "get_state", c, None)
    /\ UNCHANGED <<store, now, uuid_next, is_connected, server_up, expired, dbvars>>

call_update_state(p, Cs, Us) ==
    /\ \E c \in Cs, updates \in Us : Invoke(p, "update_state", c, updates)
    /\ UNCHANGED <<store, now, uuid_next, is_connected, server_up, expired, dbvars>>

call_start_flow(p, Cs, Fs) ==
    /\ uuid_next <= MaxSessions
    /\ \E c \in Cs, flow_name \in Fs :
        /\ HasSession(store, c) => Session(store, c).metadata.total_flows_started < MaxFlows
        /\ Invoke(p, "start_flow", c, flow_name)
    /\ UNCHANGED <<store, now, uuid_next, is_connected, server_up, expired, dbvars>>

call_complete_flow(p, Cs, Os) ==
    /\ \E c \in Cs, outcome \in Os : Invoke(p, "complete_flow", c, outcome)
    /\ UNCHANGED <<store, now, uuid_next, is_connected, server_up, expired, dbvars>>

call_clear_session(p, Cs) ==
    /\ \E c \in Cs : Invoke(p, "clear_session", c, None)
    /\ UNCHANGED <<store, now, uuid_next, is_connected, server_up, expired, dbvars>>

call_has_active_session(p, Cs) ==
    /\ \E c \in Cs : Invoke(p, "has_active_session", c, None)
    /\ UNCHANGED <<store, now, uuid_next, is_connected, server_up, expired, dbvars>>

call_get_or_create_state(p, Cs) ==
    /\ uuid_next <= MaxSessions
    /\ \E c \in Cs : Invoke(p, "get_or_create_state", c, None)
    /\ UNCHANGED <<store, now, uuid_next, is_connected, server_up, expired, dbvars>>

\* a caller enters one of the public methods of ConversationState
Call(p, Cs, Us, Fs, Os) ==
    \/ call_create_new_session(p, Cs)
    \/ call_get_state(p, Cs)
    \/ call_update_state(p, Cs, Us)
    \/ call_start_flow(p, Cs, Fs)
    \/ call_complete_flow(p, Cs, Os)
    \/ call_clear_session(p, Cs)
    \/ call_has_active_session(p, Cs)
    \/ call_get_or_create_state(p, Cs)

(***************************************************************************)
(* SupportFlow (src/support_flow.py).  A text is the sequence of its       *)
(* lines; the long canned texts are kept by their first line.              *)
(***************************************************************************)
flow_name == "support"

flow_steps ==
    ( "1_issue_type" :>
        [ prompt    |-> "I'll help you with that! What type of issue are you having?",
          options   |-> << "1. Order issue (delivery, tracking, etc.)",
                           "2. Product question (features, compatibility)",
                           "3. Account problem (login, billing, etc.)",
                           "4. Return or refund request" >>,
          next_step |-> "2_collect_details" ] ) @@
    ( "2_collect_details" :>
        [ prompt     |-> "Tell me more about your {issue_type}. Please provide details:",
          input_type |-> "text",
          next_step  |-> "3_gather_info" ] ) @@
    ( "3_gather_info" :>
        [ prompt     |-> "To help you better, I need some information:",
          input_type |-> "text",
          next_step  |-> "4_provide_solution" ] ) @@
    ( "4_provide_solution" :>
        [ action    |-> "generate_solution",
          next_step |-> "5_confirmation" ] ) @@
    ( "5_confirmation" :>
        [ prompt    |-> "Did this help resolve your issue?",
          options   |-> << "1. Yes, issue resolved!", "2. No, I still need help" >>,
          next_step |-> "end" ] )

\* what the customer types: the catalogue of selection and confirmation words,
\* with some of them in other letter case or with blanks around, and words that
\* are in no list
Lowered ==
    ( " Order " :> "order" ) @@ ( "TRACKING" :> "tracking" ) @@
    ( "Features" :> "features" ) @@ ( " LOGIN" :> "login" ) @@
    ( "Return Refund " :> "return refund" ) @@ ( " 3 " :> "3" ) @@
    ( "YES" :> "yes" ) @@ ( " Fixed " :> "fixed" ) @@
    ( "No" :> "no" ) @@ ( "Still Need Help" :> "still need help" ) @@
    ( " 1" :> "1" ) @@ ( "Hello " :> "hello" )

Words ==
    { "1", "order", "order issue", "delivery", "tracking",
      "2", "product", "product question", "features",
      "3", "account", "account problem", "login", "billing",
      "4", "return", "refund", "return refund",
      "yes", "resolved", "fixed", "good",
      "no", "not resolved", "still need help",
      "5", "orders", "maybe", "" }

Messages == Words \cup DOMAIN Lowered

\* the messages of the repository's walk through the flow
InitialMessage == "I have an issue with my order"

DetailsMessage == "My order #1234 hasn't arrived yet"

InfoMessage == "my email is test@example.com"

\* message.lower().strip()
lower_strip(message) == IF message \in DOMAIN Lowered THEN Lowered[message] ELSE message

\* variant: the message is compared as typed
parse_issue_type_Exact(message) ==
    IF message \in {"1", "order", "order issue", "delivery", "tracking"}
    THEN "order_issue"
    ELSE IF message \in {"2", "product", "product question", "features"}
    THEN "product_question"
    ELSE IF message \in {"3", "account", "account problem", "login", "billing"}
    THEN "account_problem"
    ELSE IF message \in {"4", "return", "refund", "return refund"}
    THEN "return_refund"
    ELSE None

parse_issue_type(message) ==
    LET message_lower == lower_strip(message)
    IN  IF message_lower \in {"1", "order", "order issue", "delivery", "tracking"}
        THEN "order_issue"
        ELSE IF message_lower \in {"2", "product", "product question", "features"}
        THEN "product_question"
        ELSE IF message_lower \in {"3", "account", "account problem", "login", "billing"}
        THEN "account_problem"
        ELSE IF message_lower \in {"4", "return", "refund", "return refund"}
        THEN "return_refund"
        ELSE None

\* the outcome _handle_confirmation derives from the answer, None for neither
parse_confirmation(message) ==
    LET message_lower == lower_strip(message)
    IN  IF message_lower \in {"1", "yes", "resolved", "fixed", "good"}
        THEN "resolved"
        ELSE IF message_lower \in {"2", "no", "not resolved", "still need help"}
        THEN "escalated"
        ELSE None

generate_step_response(step_config) ==
    IF "options" \in DOMAIN step_config
    THEN <<step_config.prompt, "">> \o step_config.options
    ELSE <<step_config.prompt>>

generate_solution(issue_type) ==
    IF issue_type = "order_issue"
    THEN <<"Here's how I can help with your order issue:">>
    ELSE IF issue_type = "product_question"
    THEN <<"I'd be happy to help with product information:">>
    ELSE IF issue_type = "account_problem"
    THEN <<"Here are solutions for common account issues:">>
    ELSE IF issue_type = "return_refund"
    THEN <<"Here's our return and refund process:">>
    ELSE <<"I've noted your issue and our support team will help you resolve it.">>

\* dict.get(key, default)
DictGet(d, k, default) == IF k \in DOMAIN d THEN d[k] ELSE default

\* the (response, state) tuple the flow hands back
Reply(response, state) == [response |-> response, state |-> state]

TroubleResponse == <<"Sorry, I'm having trouble right now. Please try again.">>

NoSessionResponse == <<"I don't have an active support session for you. How can I help?">>

RestartResponse == <<"Something went wrong. Let me restart. How can I help you?">>

ExceptResponse ==
    <<"I encountered an error. Let me try to help you again. What's your issue?">>

InvalidSelectionResponse ==
    <<"Please select a valid option:", "">> \o generate_step_response(flow_steps["1_issue_type"])

DetailPrompt(issue_type) ==
    IF issue_type = "order_issue"
    THEN <<"I'll help you with your order issue. Please tell me:">>
    ELSE IF issue_type = "product_question"
    THEN <<"I'll help answer your product question. Please tell me:">>
    ELSE IF issue_type = "account_problem"
    THEN <<"I'll help with your account issue. Please describe:">>
    ELSE IF issue_type = "return_refund"
    THEN <<"I'll help you with your return or refund. Please provide:">>
    ELSE <<"Tell me more about your issue. Please provide details:">>

InfoPrompt(issue_type) ==
    IF issue_type = "order_issue"
    THEN <<"Thank you for those details. To help you better, can you provide your email address or phone number associated with the order?">>
    ELSE IF issue_type = "account_problem"
    THEN <<"I understand the issue. Can you confirm the email address associated with your account?">>
    ELSE <<"Got it. I'll help process your return. Can you confirm the email address you used for the order?">>

SolutionResponse(solution) ==
    solution \o <<"", flow_steps["5_confirmation"].prompt, "">>
             \o flow_steps["5_confirmation"].options

ConfirmationResponse(outcome) ==
    IF outcome = "resolved"
    THEN <<"Great! I'm glad I could help resolve your issue.", "",
           "Is there anything else I can help you with today?">>
    ELSE <<"I understand you still need help. Let me connect you with a human support agent who can assist you further.", "",
           "Your case has been escalated and someone will contact you within 24 hours.">>

ClarifyResponse ==
    <<"Please let me know if the solution helped:", "",
      "1. Yes, issue resolved!", "2. No, I still need help">>

\* the updates dicts of the flow
StartSupportUpdates(initial_message, t) ==
    << << <<"current_step">>, "1_issue_type" >>,
       << <<"collected_data">>,
          [initial_message |-> initial_message, started_at |-> IsoFormat(t)] >> >>

IssueTypeUpdates(state, issue_type) ==
    << << <<"current_step">>, "2_collect_details" >>,
       << <<"collected_data", "issue_type">>, issue_type >>,
       << <<"metadata", "message_count">>, state.metadata.message_count + 1 >> >>

DetailUpdates(state, message, current_step) ==
    << << <<"current_step">>, current_step >>,
       << <<"collected_data", "problem_details">>, message >>,
       << <<"metadata", "message_count">>, state.metadata.message_count + 1 >> >>

InfoUpdates(state, message) ==
    << << <<"current_step">>, "4_provide_solution" >>,
       << <<"collected_data", "additional_info">>, message >>,
       << <<"metadata", "message_count">>, state.metadata.message_count + 1 >> >>

\* variant: the solution is stored and the step left at 4_provide_solution
SolutionUpdates_NoAdvance(state, solution) ==
    << << <<"current_step">>, "4_provide_solution" >>,
       << <<"collected_data", "solution_provided">>, solution >>,
       << <<"metadata", "message_count">>, state.metadata.message_count + 1 >> >>

SolutionUpdates(state, solution) ==
    << << <<"current_step">>, "5_confirmation" >>,
       << <<"collected_data", "solution_provided">>, solution >>,
       << <<"metadata", "message_count">>, state.metadata.message_count + 1 >> >>

\* the activation of a step handler: its message and the state it was handed
HandlerFrame(fn, cust, message, state) == [Frame(fn, cust, message) EXCEPT !.state = state]

Handler(current_step) ==
    IF current_step = "1_issue_type" THEN "_handle_issue_type_selection"
    ELSE IF current_step = "2_collect_details" THEN "_handle_detail_collection"
    ELSE IF current_step = "3_gather_info" THEN "_handle_info_gathering"
    ELSE IF current_step = "4_provide_solution" THEN "_handle_solution_provision"
    ELSE "_handle_confirmation"

\* variant: the step handlers are called outside any try block
Catches_Nothing(frame) == FALSE

\* a frame waiting inside its try block
Catches(frame) == frame.fn = "process_support_message" /\ frame.pc = "dispatched"

\* an exception leaves the innermost frame: the stack unwinds to the innermost
\* try block, whose except clause returns the error reply; with no try block on
\* the stack the exception leaves the public call
Raise(p) ==
    LET catching == { i \in DOMAIN stack[p] : Catches(stack[p][i]) }
        top == CHOOSE i \in catching : \A j \in catching : j <= i
        reply == Reply(ExceptResponse, EmptyDict)
    IN  IF catching = {}
        THEN /\ stack' = [stack EXCEPT ![p] = <<>>]
             /\ call' = [call EXCEPT ![p] = [@ EXCEPT !.status = "raised"]]
        ELSE IF top = 1
        THEN /\ stack' = [stack EXCEPT ![p] = <<>>]
             /\ call' = [call EXCEPT ![p] = [@ EXCEPT !.status = "returned", !.ret = reply]]
        ELSE /\ stack' = [stack EXCEPT ![p] =
                    Append(SubSeq(@, 1, top - 2), [@[top - 1] EXCEPT !.ret = reply])]
             /\ UNCHANGED call

start_support_flow_start(p) ==
    /\ At(p, "start_support_flow", "start")
    /\ Push(p, "started", Frame("start_flow", Top(p).cust, flow_name))
    /\ UNCHANGED <<store, now, uuid_next, is_connected, server_up, expired, dbvars>>

start_support_flow_started(p) ==
    /\ At(p, "start_support_flow", "started")
    /\ LET f == Top(p)
           success == f.ret
       IN  IF ~success
           THEN Return(p, Reply(TroubleResponse, EmptyDict), FALSE)
           ELSE Push(p, "updated", Frame("update_state", f.cust, StartSupportUpdates(f.arg, now)))
    /\ UNCHANGED <<store, now, uuid_next, is_connected, server_up, expired, dbvars>>

start_support_flow_updated(p) ==
    /\ At(p, "start_support_flow", "updated")
    /\ Push(p, "got_state", Frame("get_state", Top(p).cust, None))
    /\ UNCHANGED <<store, now, uuid_next, is_connected, server_up, expired, dbvars>>

start_support_flow_got_state(p) ==
    /\ At(p, "start_support_flow", "got_state")
    /\ Return(p, Reply(generate_step_response(flow_steps["1_issue_type"]), Top(p).ret), FALSE)
    /\ UNCHANGED <<store, now, uuid_next, is_connected, server_up, expired, dbvars>>

process_support_message_start(p) ==
    /\ At(p, "process_support_message", "start")
    /\ Push(p, "got_state", Frame("get_state", Top(p).cust, None))
    /\ UNCHANGED <<store, now, uuid_next, is_connected, server_up, expired, dbvars>>

process_support_message_got_state(p) ==
    /\ At(p, "process_support_message", "got_state")
    /\ LET f == Top(p)
           state == f.ret
       IN  IF ~TruthyDict(state) \/ state.current_flow # flow_name
           THEN Return(p, Reply(NoSessionResponse, EmptyDict), FALSE)
           ELSE IF ~TruthyStr(state.current_step) \/ state.current_step \notin DOMAIN flow_steps
           THEN Return(p, Reply(RestartResponse, EmptyDict), FALSE)
           ELSE Push(p, "dispatched",
                     HandlerFrame(Handler(state.current_step), f.cust, f.arg, state))
    /\ UNCHANGED <<store, now, uuid_next, is_connected, server_up, expired, dbvars>>

process_support_message_dispatched(p) ==
    /\ At(p, "process_support_message", "dispatched")
    /\ Return(p, Top(p).ret, FALSE)
    /\ UNCHANGED <<store, now, uuid_next, is_connected, server_up, expired, dbvars>>

\* variant: every answer is taken for the first option
handle_issue_type_selection_start_FirstOption(p) ==
    /\ At(p, "_handle_issue_type_selection", "start")
    /\ LET f == Top(p)
       IN  Push(p, "updated", Frame("update_state", f.cust, IssueTypeUpdates(f.state, "order_issue")))
    /\ UNCHANGED <<store, now, uuid_next, is_connected, server_up, expired, dbvars>>

handle_issue_type_selection_start(p) ==
    /\ At(p, "_handle_issue_type_selection", "start")
    /\ LET f == Top(p)
           issue_type == parse_issue_type(f.arg)
       IN  IF ~TruthyStr(issue_type)
           THEN Return(p, Reply(InvalidSelectionResponse, f.state), FALSE)
           ELSE Push(p, "updated", Frame("update_state", f.cust, IssueTypeUpdates(f.state, issue_type)))
    /\ UNCHANGED <<store, now, uuid_next, is_connected, server_up, expired, dbvars>>

handle_issue_type_selection_updated(p) ==
    /\ At(p, "_handle_issue_type_selection", "updated")
    /\ Push(p, "got_state", Frame("get_state", Top(p).cust, None))
    /\ UNCHANGED <<store, now, uuid_next, is_connected, server_up, expired, dbvars>>

handle_issue_type_selection_got_state(p) ==
    /\ At(p, "_handle_issue_type_selection", "got_state")
    /\ LET f == Top(p)
       IN  Return(p, Reply(DetailPrompt(parse_issue_type(f.arg)), f.ret), FALSE)
    /\ UNCHANGED <<store, now, uuid_next, is_connected, server_up, expired, dbvars>>

handle_detail_collection_start(p) ==
    /\ At(p, "_handle_detail_collection", "start")
    /\ LET f == Top(p)
       IN  Push(p, "updated", Frame("update_state", f.cust,
                    DetailUpdates(f.state, f.arg, "3_gather_info")))
    /\ UNCHANGED <<store, now, uuid_next, is_connected, server_up, expired, dbvars>>

\* variant: product questions go through the information step like the rest
handle_detail_collection_updated_NoSkip(p) ==
    /\ At(p, "_handle_detail_collection", "updated")
    /\ Push(p, "got_state", Frame("get_state", Top(p).cust, None))
    /\ UNCHANGED <<store, now, uuid_next, is_connected, server_up, expired, dbvars>>

handle_detail_collection_updated(p) ==
    /\ At(p, "_handle_detail_collection", "updated")
    /\ LET f == Top(p)
           issue_type == DictGet(f.state.collected_data, "issue_type", "")
       IN  IF issue_type \in {"order_issue", "account_problem", "return_refund"}
           THEN Push(p, "got_state", Frame("get_state", f.cust, None))
           ELSE Push(p, "skipped", Frame("update_state", f.cust,
                        DetailUpdates(f.state, f.arg, "4_provide_solution")))
    /\ UNCHANGED <<store, now, uuid_next, is_connected, server_up, expired, dbvars>>

handle_detail_collection_got_state(p) ==
    /\ At(p, "_handle_detail_collection", "got_state")
    /\ LET f == Top(p)
           issue_type == DictGet(f.state.collected_data, "issue_type", "")
       IN  Return(p, Reply(InfoPrompt(issue_type), f.ret), FALSE)
    /\ UNCHANGED <<store, now, uuid_next, is_connected, server_up, expired, dbvars>>

handle_detail_collection_skipped(p) ==
    /\ At(p, "_handle_detail_collection", "skipped")
    /\ Push(p, "got_solution_state", Frame("get_state", Top(p).cust, None))
    /\ UNCHANGED <<store, now, uuid_next, is_connected, server_up, expired, dbvars>>

handle_detail_collection_got_solution_state(p) ==
    /\ At(p, "_handle_detail_collection", "got_solution_state")
    /\ LET f == Top(p)
       IN  TailCall(p, HandlerFrame("_handle_solution_provision", f.cust, f.arg, f.ret))
    /\ UNCHANGED <<store, now, uuid_next, is_connected, server_up, expired, dbvars>>

handle_info_gathering_start(p) ==
    /\ At(p, "_handle_info_gathering", "start")
    /\ LET f == Top(p)
       IN  Push(p, "updated", Frame("update_state", f.cust, InfoUpdates(f.state, f.arg)))
    /\ UNCHANGED <<store, now, uuid_next, is_connected, server_up, expired, dbvars>>

handle_info_gathering_updated(p) ==
    /\ At(p, "_handle_info_gathering", "updated")
    /\ Push(p, "got_state", Frame("get_state", Top(p).cust, None))
    /\ UNCHANGED <<store, now, uuid_next, is_connected, server_up, expired, dbvars>>

handle_info_gathering_got_state(p) ==
    /\ At(p, "_handle_info_gathering", "got_state")
    /\ LET f == Top(p)
           updated_state == f.ret
       IN  TailCall(p, HandlerFrame("_handle_solution_provision", f.cust, f.arg, updated_state))
    /\ UNCHANGED <<store, now, uuid_next, is_connected, server_up, expired, dbvars>>

\* state.get(...) on None raises AttributeError
handle_solution_provision_start(p) ==
    /\ At(p, "_handle_solution_provision", "start")
    /\ LET f == Top(p)
       IN  IF f.state = NoState
           THEN Raise(p)
           ELSE LET collected_data == DictGet(f.state, "collected_data", EmptyDict)
                    issue_type == DictGet(collected_data, "issue_type", "")
                    solution == generate_solution(issue_type)
                IN  Push(p, "updated", Frame("update_state", f.cust,
                            SolutionUpdates(f.state, solution)))
    /\ UNCHANGED <<store, now, uuid_next, is_connected, server_up, expired, dbvars>>

handle_solution_provision_updated(p) ==
    /\ At(p, "_handle_solution_provision", "updated")
    /\ Push(p, "got_state", Frame("get_state", Top(p).cust, None))
    /\ UNCHANGED <<store, now, uuid_next, is_connected, server_up, expired, dbvars>>

handle_solution_provision_got_state(p) ==
    /\ At(p, "_handle_solution_provision", "got_state")
    /\ LET f == Top(p)
           issue_type == DictGet(DictGet(f.state, "collected_data", EmptyDict), "issue_type", "")
       IN  Return(p, Reply(SolutionResponse(generate_solution(issue_type)), f.ret), FALSE)
    /\ UNCHANGED <<store, now, uuid_next, is_connected, server_up, expired, dbvars>>

\* variant: every answer other than a yes counts as a no
handle_confirmation_start_YesOrNo(p) ==
    /\ At(p, "_handle_confirmation", "start")
    /\ LET f == Top(p)
           outcome == IF parse_confirmation(f.arg) = "resolved" THEN "resolved" ELSE "escalated"
       IN  Push(p, "completed", Frame("complete_flow", f.cust, outcome))
    /\ UNCHANGED <<store, now, uuid_next, is_connected, server_up, expired, dbvars>>

handle_confirmation_start(p) ==
    /\ At(p, "_handle_confirmation", "start")
    /\ LET f == Top(p)
           outcome == parse_confirmation(f.arg)
       IN  IF outcome = None
           THEN Return(p, Reply(ClarifyResponse, f.state), FALSE)
           ELSE Push(p, "completed", Frame("complete_flow", f.cust, outcome))
    /\ UNCHANGED <<store, now, uuid_next, is_connected, server_up, expired, dbvars>>

handle_confirmation_completed(p) ==
    /\ At(p, "_handle_confirmation", "completed")
    /\ Push(p, "got_state", Frame("get_state", Top(p).cust, None))
    /\ UNCHANGED <<store, now, uuid_next, is_connected, server_up, expired, dbvars>>

\* variant: the session is deleted once the flow is complete
handle_confirmation_got_state_Clear(p) ==
    /\ At(p, "_handle_confirmation", "got_state")
    /\ store' = delete_data_store(get_conversation_key(Top(p).cust))
    /\ Return(p, Reply(ConfirmationResponse(parse_confirmation(Top(p).arg)), EmptyDict), TRUE)
    /\ UNCHANGED <<now, uuid_next, is_connected, server_up, expired, dbvars>>

handle_confirmation_got_state(p) ==
    /\ At(p, "_handle_confirmation", "got_state")
    /\ LET f == Top(p)
           final_state == IF TruthyDict(f.ret) THEN f.ret ELSE EmptyDict
           outcome == parse_confirmation(f.arg)
       IN  Return(p, Reply(ConfirmationResponse(outcome), final_state), FALSE)
    /\ UNCHANGED <<store, now, uuid_next, is_connected, server_up, expired, dbvars>>

\* one step of the code of the support flow in request p
SupportStep(p) ==
    \/ start_support_flow_start(p)
    \/ start_support_flow_started(p)
    \/ start_support_flow_updated(p)
    \/ start_support_flow_got_state(p)
    \/ process_support_message_start(p)
    \/ process_support_message_got_state(p)
    \/ process_support_message_dispatched(p)
    \/ handle_issue_type_selection_start(p)
    \/ handle_issue_type_selection_updated(p)
    \/ handle_issue_type_selection_got_state(p)
    \/ handle_detail_collection_start(p)
    \/ handle_detail_collection_updated(p)
    \/ handle_detail_collection_got_state(p)
    \/ handle_detail_collection_skipped(p)
    \/ handle_detail_collection_got_solution_state(p)
    \/ handle_info_gathering_start(p)
    \/ handle_info_gathering_updated(p)
    \/ handle_info_gathering_got_state(p)
    \/ handle_solution_provision_start(p)
    \/ handle_solution_provision_updated(p)
    \/ handle_solution_provision_got_state(p)
    \/ handle_confirmation_start(p)
    \/ handle_confirmation_completed(p)
    \/ handle_confirmation_got_state(p)

\* the steps of ConversationState the support flow runs through
StateStep(p) ==
    \/ create_new_session_set(p)
    \/ get_state_get(p)
    \/ get_state_set(p)
    \/ update_state_get(p)
    \/ update_state_set(p)
    \/ start_flow_start(p)
    \/ start_flow_got_state(p)
    \/ start_flow_created(p)
    \/ complete_flow_start(p)
    \/ complete_flow_got_state(p)

\* what the customer answers at the session's step: one of the choices Ms where
\* the flow shows options, free text elsewhere
Answers(c, Ms) ==
    LET current_step == IF HasSession(store, c) THEN Session(store, c).current_step ELSE None
    IN  IF current_step \in {"1_issue_type", "5_confirmation"} THEN Ms
        ELSE IF current_step = "2_collect_details" THEN {DetailsMessage}
        ELSE IF current_step = "3_gather_info" THEN {InfoMessage}
        ELSE {InitialMessage}

call_start_support_flow(p, Cs) ==
    /\ uuid_next <= MaxSessions
    /\ \E c \in Cs :
        /\ HasSession(store, c) => Session(store, c).metadata.total_flows_started < MaxFlows
        /\ Invoke(p, "start_support_flow", c, InitialMessage)
    /\ UNCHANGED <<store, now, uuid_next, is_connected, server_up, expired, dbvars>>

call_process_support_message(p, Cs, Ms) ==
    /\ \E c \in Cs :
        \E message \in Answers(c, Ms) : Invoke(p, "process_support_message", c, message)
    /\ UNCHANGED <<store, now, uuid_next, is_connected, server_up, expired, dbvars>>

(***************************************************************************)
(* The environment: time and the Redis server                              *)
(***************************************************************************)
\* no call of RedisManager since time last passed
NoRedisCall ==
    [op |-> "none", key |-> <<>>, data |-> NoState, ttl |-> 0, ret |-> None,
     up |-> FALSE, prev |-> "none", prev_key |-> <<>>, prev_data |-> NoState, prev_ttl |-> 0,
     prev_ret |-> None]

\* TickSeconds pass: Redis counts every TTL down and evicts the keys that ran out
Tick ==
    /\ now + TickSeconds <= MaxTicks * TickSeconds
    /\ now' = now + TickSeconds
    /\ LET live == {k \in DOMAIN store : store[k].ttl - TickSeconds > 0}
       IN  /\ store' = [k \in live |-> [store[k] EXCEPT !.ttl = @ - TickSeconds]]
           /\ expired' = expired \cup (DOMAIN store \ live)
    /\ call' = [p \in Procs |-> IF call[p].status = "returned" THEN IdleCall ELSE call[p]]
    /\ redis_call' = NoRedisCall
    /\ UNCHANGED <<uuid_next, is_connected, server_up, stack,
                   customers, next_id, resolved, orders, recalculated,
                   db_customers, db_messages, db_resolved, db_session,
                   cart_items, campaign_sends, utcnow>>

\* ---------------------------------------------------------------------------
\* RedisManager called directly (src/redis_manager.py, test_redis_manager)
\* ---------------------------------------------------------------------------

\* the record of a call of RedisManager, with the call made before it
RedisCall(op, key, data, ttl, ret) ==
    [op |-> op, key |-> key, data |-> data, ttl |-> ttl, ret |-> ret,
     up |-> StoreAvailable, prev |-> redis_call.op, prev_key |-> redis_call.key,
     prev_data |-> redis_call.data, prev_ttl |-> redis_call.ttl,
     prev_ret |-> redis_call.ret]

\* the keys, the values and the expiration times of the calls
TestKeys == {<<"test", "conversation">>, get_conversation_key("cust_1")}
TestData == {[customer_id |-> "cust_123"], [customer_id |-> "cust_123", current_step |-> "1"]}
TestTtls == {60, session_timeout}

\* what a call of RedisManager leaves alone
NoSessionChange ==
    UNCHANGED <<now, uuid_next, is_connected, server_up, stack, call, expired,
                customers, next_id, resolved, orders, recalculated,
                db_customers, db_messages, db_resolved, db_session,
                cart_items, campaign_sends, utcnow>>

\* RedisManager.set_data
set_data(key, data, ttl) ==
    /\ store' = set_data_store(key, data, ttl)
    /\ redis_call' = RedisCall("set_data", key, data, ttl, set_data_result)
    /\ NoSessionChange

\* RedisManager.get_data
call_get_data ==
    /\ \E key \in TestKeys :
           redis_call' = RedisCall("get_data", key, NoState, 0, get_data(key))
    /\ UNCHANGED store
    /\ NoSessionChange

\* RedisManager.get_ttl with TTL answering -1, as for a key without expiry
get_ttl_NoExpiry(key) ==
    IF StoreAvailable /\ key \in DOMAIN store THEN -1 ELSE -2

\* RedisManager.get_ttl: the seconds the key has left, -2 when the key does
\* not exist, the manager is not connected or the client raises
get_ttl(key) ==
    IF StoreAvailable /\ key \in DOMAIN store THEN store[key].ttl ELSE -2

\* a caller asks for the seconds a key has left
call_get_ttl ==
    /\ \E key \in TestKeys :
           redis_call' = RedisCall("get_ttl", key, NoState, 0, get_ttl(key))
    /\ UNCHANGED store
    /\ NoSessionChange

\* RedisManager.delete_data
delete_data(key) ==
    /\ store' = delete_data_store(key)
    /\ redis_call' = RedisCall("delete_data", key, NoState, 0, delete_data_result(key))
    /\ NoSessionChange

\* a caller stores a value
call_set_data ==
    \E key \in TestKeys, data \in TestData, ttl \in TestTtls : set_data(key, data, ttl)

\* a caller deletes a key
call_delete_data == \E key \in TestKeys : delete_data(key)

\* ---------------------------------------------------------------------------
\* Customer identity (src/test_comparison.py, src/database.py)
\* ---------------------------------------------------------------------------

\* the largest number of customer records a run creates
MaxCustomers == 2

\* a Python str is a TLA+ string; Spelling gives its characters, so that
\* str.replace and len compute on them
Spelling ==
    ("" :> <<>>) @@
    ("whatsapp:+1234567890" :>
        <<"w","h","a","t","s","a","p","p",":","+","1","2","3","4","5","6","7","8","9","0">>) @@
    ("+1234567890" :> <<"+","1","2","3","4","5","6","7","8","9","0">>) @@
    ("1234567890" :> <<"1","2","3","4","5","6","7","8","9","0">>) @@
    ("123-456 7890" :> <<"1","2","3","-","4","5","6"," ","7","8","9","0">>) @@
    ("+11234567890" :> <<"+","1","1","2","3","4","5","6","7","8","9","0">>) @@
    ("11234567890" :> <<"1","1","2","3","4","5","6","7","8","9","0">>) @@
    ("+15550001111" :> <<"+","1","5","5","5","0","0","0","1","1","1","1">>) @@
    ("15550001111" :> <<"1","5","5","5","0","0","0","1","1","1","1">>) @@
    ("(123) 456-7890" :> <<"(","1","2","3",")"," ","4","5","6","-","7","8","9","0">>) @@
    ("+(123)4567890" :> <<"+","(","1","2","3",")","4","5","6","7","8","9","0">>) @@
    ("(12)345678" :> <<"(","1","2",")","3","4","5","6","7","8">>) @@
    ("+1(12)345678" :> <<"+","1","(","1","2",")","3","4","5","6","7","8">>) @@
    ("+" :> <<"+">>) @@
    ("whatsapp:+15550001111" :>
        <<"w","h","a","t","s","a","p","p",":","+","1","5","5","5","0","0","0","1","1","1","1">>) @@
    ("whatsapp:" :> <<"w","h","a","t","s","a","p","p",":">>) @@
    (" " :> <<" ">>) @@
    ("-" :> <<"-">>)

\* the str whose characters are chars
Str(chars) == CHOOSE s \in DOMAIN Spelling : Spelling[s] = chars

\* bool(value) of a str or None
Truthy(value) == value /= None /\ value /= ""

\* chars.replace(old, ''): every non-overlapping occurrence, left to right
RECURSIVE RemoveAll(_, _)
RemoveAll(chars, old) ==
    IF Len(chars) < Len(old) THEN chars
    ELSE IF SubSeq(chars, 1, Len(old)) = old
         THEN RemoveAll(SubSeq(chars, Len(old) + 1, Len(chars)), old)
         ELSE <<chars[1]>> \o RemoveAll(Tail(chars), old)

\* NewCustomerManager.normalize_phone_number
normalize_phone_number(phone) ==
    IF ~Truthy(phone) THEN None
    ELSE LET stripped == RemoveAll(RemoveAll(RemoveAll(RemoveAll(Spelling[phone],
                             Spelling["whatsapp:"]), Spelling["+"]), Spelling[" "]),
                             Spelling["-"])
             full == IF Len(stripped) = 10 THEN <<"1">> \o stripped ELSE stripped
         IN  Str(<<"+">> \o full)

\* normalize_phone_number of every str spelled above and of None
Normalized == [phone \in DOMAIN Spelling \cup {None} |-> normalize_phone_number(phone)]

\* a customer record of NewCustomerManager (lines 130-137)
NewCustomer(id, email, phone, whatsapp_phone) ==
    [id |-> id, email |-> email, phone |-> phone, whatsapp_phone |-> whatsapp_phone,
     total_orders |-> 0, order_count |-> 0]

\* the index of the first record a scan accepts, 0 when it accepts none;
\* accepted[i] tells whether it accepts the i-th record
FirstIndex(accepted) ==
    IF \E i \in 1..Len(accepted) : accepted[i]
    THEN CHOOSE i \in 1..Len(accepted) :
             accepted[i] /\ \A j \in 1..(i - 1) : ~accepted[j]
    ELSE 0

\* lines 98-101 without the scan: no record is ever found by its email
FindByEmail_Never(records, email) == 0

\* lines 98-101: the first record with this email, when an email is given
FindByEmail(records, email) ==
    IF Truthy(email)
    THEN FirstIndex([i \in 1..Len(records) |-> records[i].email = email])
    ELSE 0

\* line 115 comparing the phone field only
HoldsPhone_PhoneOnly(c, search_phone) == c.phone = search_phone

\* line 115: the record holds search_phone as its phone or its WhatsApp phone
HoldsPhone(c, search_phone) == c.phone = search_phone \/ c.whatsapp_phone = search_phone

\* line 111 with the WhatsApp phone searched before the phone
SearchPhones_WhatsAppFirst(normalized_phone, normalized_whatsapp) ==
    SelectSeq(<<normalized_whatsapp, normalized_phone>>, Truthy)

\* line 111: the normalized numbers to search for, the phone first
SearchPhones(normalized_phone, normalized_whatsapp) ==
    SelectSeq(<<normalized_phone, normalized_whatsapp>>, Truthy)

\* lines 113-126: the first record holding the first of search_phones that any
\* record holds
RECURSIVE FindByPhones(_, _)
FindByPhones(records, search_phones) ==
    IF search_phones = <<>> THEN 0
    ELSE LET found == FirstIndex([i \in 1..Len(records) |->
                                         HoldsPhone(records[i], Head(search_phones))])
         IN  IF found /= 0 THEN found ELSE FindByPhones(records, Tail(search_phones))

\* lines 103-104 alone: the empty phone of the record found by email stays empty
FillFromEmailMatch_WhatsAppOnly(c, normalized_phone, normalized_whatsapp) ==
    [c EXCEPT !.whatsapp_phone = IF Truthy(normalized_whatsapp) /\ ~Truthy(@)
                                 THEN normalized_whatsapp ELSE @]

\* lines 103-106 storing the numbers of the call whatever the record holds
FillFromEmailMatch_Overwrite(c, normalized_phone, normalized_whatsapp) ==
    [c EXCEPT !.whatsapp_phone = IF Truthy(normalized_whatsapp)
                                 THEN normalized_whatsapp ELSE @,
              !.phone = IF Truthy(normalized_phone) THEN normalized_phone ELSE @]

\* lines 103-106: fill the empty phone fields of the record found by email
FillFromEmailMatch(c, normalized_phone, normalized_whatsapp) ==
    [c EXCEPT !.whatsapp_phone = IF Truthy(normalized_whatsapp) /\ ~Truthy(@)
                                 THEN normalized_whatsapp ELSE @,
              !.phone = IF Truthy(normalized_phone) /\ ~Truthy(@)
                        THEN normalized_phone ELSE @]

\* lines 118-123: fill the empty fields of the record found by a number
FillFromPhoneMatch(c, email, normalized_phone, normalized_whatsapp) ==
    [c EXCEPT !.email = IF Truthy(email) /\ ~Truthy(@) THEN email ELSE @,
              !.whatsapp_phone = IF Truthy(normalized_whatsapp) /\ ~Truthy(@)
                                 THEN normalized_whatsapp ELSE @,
              !.phone = IF Truthy(normalized_phone) /\ ~Truthy(@)
                        THEN normalized_phone ELSE @]

\* no call of new_find_or_create_customer yet
NoResolved ==
    [email |-> None, phone |-> None, whatsapp_phone |-> None, ret |-> 0,
     found |-> "none", filled |-> {}]

\* the fields of a record that a call gave a value
Filled(before, after) ==
    {f \in {"email", "phone", "whatsapp_phone"} : after[f] /= before[f]}

\* NewCustomerManager.new_find_or_create_customer
new_find_or_create_customer(email, phone, whatsapp_phone) ==
    LET normalized_phone == Normalized[phone]
        normalized_whatsapp == Normalized[whatsapp_phone]
        by_email == FindByEmail(customers, email)
        by_phone == IF by_email = 0
                    THEN FindByPhones(customers,
                             SearchPhones(normalized_phone, normalized_whatsapp))
                    ELSE 0
        this == [email |-> email, phone |-> phone, whatsapp_phone |-> whatsapp_phone]
    IN  /\ IF by_email /= 0
           THEN /\ customers' = [customers EXCEPT ![by_email] =
                       FillFromEmailMatch(@, normalized_phone, normalized_whatsapp)]
                /\ resolved' = this @@
                       [ret |-> customers[by_email].id, found |-> "email",
                        filled |-> Filled(customers[by_email], customers'[by_email])]
                /\ UNCHANGED next_id
           ELSE IF by_phone /= 0
           THEN /\ customers' = [customers EXCEPT ![by_phone] =
                       FillFromPhoneMatch(@, email, normalized_phone, normalized_whatsapp)]
                /\ resolved' = this @@
                       [ret |-> customers[by_phone].id, found |-> "phone",
                        filled |-> Filled(customers[by_phone], customers'[by_phone])]
                /\ UNCHANGED next_id
           ELSE /\ Len(customers) < MaxCustomers
                /\ customers' = Append(customers,
                       NewCustomer(next_id, email, normalized_phone, normalized_whatsapp))
                /\ resolved' = this @@ [ret |-> next_id, found |-> "new", filled |-> {}]
                /\ next_id' = next_id + 1
        /\ UNCHANGED <<store, now, uuid_next, is_connected, server_up, stack, call, expired>>
        /\ recalculated' = 0
        /\ UNCHANGED <<orders, redis_call>>
        /\ UNCHANGED <<db_customers, db_messages, db_resolved, db_session>>
        /\ UNCHANGED <<cart_items, campaign_sends, utcnow>>

\* the emails and the numbers customers are resolved by
Emails == {None, "john@example.com", "test@example.com"}
Phones == {None, "+1234567890", "1234567890"}
WhatsAppPhones == {None, "whatsapp:+1234567890", "+15550001111"}

\* a caller resolves a customer
call_new_find_or_create_customer ==
    \E email \in Emails, phone \in Phones, whatsapp_phone \in WhatsAppPhones :
        new_find_or_create_customer(email, phone, whatsapp_phone)

\* the largest number of orders of NewCustomerManager
MaxOrders == 3

\* the amounts of the orders, in cents
Amounts == {5000, 7525}

\* what the calls on the orders leave alone
NoOrderChange ==
    UNCHANGED <<store, now, uuid_next, is_connected, server_up, stack, call, expired,
                next_id, resolved, redis_call, db_customers, db_messages, db_resolved,
                db_session, cart_items, campaign_sends, utcnow>>

\* NewCustomerManager.add_order
add_order(customer_id, order_amount) ==
    /\ Len(orders) < MaxOrders
    /\ orders' = Append(orders, [customer_id |-> customer_id, amount |-> order_amount])
    /\ recalculated' = 0
    /\ UNCHANGED customers
    /\ NoOrderChange

\* lines 152-158: the sum and the number of the orders of the customer
RECURSIVE OrderTotals(_, _)
OrderTotals(order_list, customer_id) ==
    IF order_list = <<>> THEN [total_spent |-> 0, order_count |-> 0]
    ELSE LET rest == OrderTotals(Tail(order_list), customer_id)
         IN  IF Head(order_list).customer_id = customer_id
             THEN [total_spent |-> rest.total_spent + Head(order_list).amount,
                   order_count |-> rest.order_count + 1]
             ELSE rest

\* lines 161-165 adding to the totals of the record, as
\* old_update_customer_totals does (lines 59-63)
StoreTotals_Increment(records, customer_id, totals) ==
    LET found == FirstIndex([i \in 1..Len(records) |-> records[i].id = customer_id])
    IN  IF found = 0 THEN records
        ELSE [records EXCEPT ![found].total_orders = @ + totals.total_spent,
                             ![found].order_count = @ + totals.order_count]

\* lines 161-165: the totals are stored in the first record with the id
StoreTotals(records, customer_id, totals) ==
    LET found == FirstIndex([i \in 1..Len(records) |-> records[i].id = customer_id])
    IN  IF found = 0 THEN records
        ELSE [records EXCEPT ![found].total_orders = totals.total_spent,
                             ![found].order_count = totals.order_count]

\* NewCustomerManager.recalculate_customer_totals
recalculate_customer_totals(customer_id) ==
    /\ customers' = StoreTotals(customers, customer_id, OrderTotals(orders, customer_id))
    /\ recalculated' = customer_id
    /\ UNCHANGED orders
    /\ NoOrderChange

\* the ids orders are added and totals recalculated for
CustomerIds == 1..MaxCustomers

\* a customer is resolved by email, as before an order (lines 226, 269)
call_new_find_or_create_customer_email ==
    \E email \in Emails \ {None} : new_find_or_create_customer(email, None, None)

\* an order of a customer is recorded
call_add_order ==
    \E customer_id \in CustomerIds, order_amount \in Amounts :
        add_order(customer_id, order_amount)

\* the totals of a customer are recalculated
call_recalculate_customer_totals ==
    \E customer_id \in CustomerIds : recalculate_customer_totals(customer_id)

\* the phones as customers type them
TypedPhones == {None, "", "whatsapp:+1234567890", "+1234567890", "1234567890",
                "123-456 7890", "+15550001111", "(123) 456-7890", "(12)345678"}

\* a caller resolves a customer by a phone as typed
call_new_find_or_create_customer_phone ==
    \E phone \in TypedPhones : new_find_or_create_customer(None, phone, None)

\* ---------------------------------------------------------------------------
\* The customers table and the Twilio webhook (src/database.py, src/main.py)
\* ---------------------------------------------------------------------------

\* the largest number of rows of the messages table
MaxMessages == 4

\* a row of the customers table (database.py lines 36-41); the uuid primary key
\* is the number of the row
Customer(id, email, phone, whatsapp_phone) ==
    [id |-> id, email |-> email, phone |-> phone, whatsapp_phone |-> whatsapp_phone]

\* a row of the messages table (database.py lines 105-109)
Message(customer_id, direction) == [customer_id |-> customer_id, direction |-> direction]

\* database.py lines 279-286: the row found by email, else by phone, else by
\* WhatsApp phone, each compared as given with its own column; 0 when none
FindCustomer(rows, email, phone, whatsapp_phone) ==
    LET by_email == IF Truthy(email)
                    THEN FirstIndex([i \in 1..Len(rows) |-> rows[i].email = email])
                    ELSE 0
        by_phone == IF by_email = 0 /\ Truthy(phone)
                    THEN FirstIndex([i \in 1..Len(rows) |-> rows[i].phone = phone])
                    ELSE 0
        by_whatsapp == IF by_email = 0 /\ by_phone = 0 /\ Truthy(whatsapp_phone)
                       THEN FirstIndex([i \in 1..Len(rows) |->
                                           rows[i].whatsapp_phone = whatsapp_phone])
                       ELSE 0
    IN  IF by_email /= 0 THEN by_email
        ELSE IF by_phone /= 0 THEN by_phone
        ELSE by_whatsapp

\* no call of find_or_create_customer yet
NoDbResolved ==
    [email |-> None, phone |-> None, whatsapp_phone |-> None, ret |-> 0, created |-> FALSE]

\* database.find_or_create_customer: the row found, or a new row that is
\* committed at once (line 296)
find_or_create_customer(email, phone, whatsapp_phone) ==
    LET found == FindCustomer(db_customers, email, phone, whatsapp_phone)
    IN  IF found /= 0
        THEN /\ db_resolved' = [email |-> email, phone |-> phone,
                                whatsapp_phone |-> whatsapp_phone,
                                ret |-> db_customers[found].id, created |-> FALSE]
             /\ UNCHANGED db_customers
        ELSE /\ Len(db_customers) < MaxCustomers
             /\ db_customers' = Append(db_customers,
                    Customer(Len(db_customers) + 1, email, phone, whatsapp_phone))
             /\ db_resolved' = [email |-> email, phone |-> phone,
                                whatsapp_phone |-> whatsapp_phone,
                                ret |-> Len(db_customers) + 1, created |-> TRUE]

\* no webhook is being handled, none was handled yet
NoSession ==
    [pc |-> "idle", from_phone |-> None, customer |-> 0, created |-> FALSE,
     pending |-> <<>>, outcome |-> "none"]

\* what the relational actions leave alone
NoStateChange ==
    UNCHANGED <<store, now, uuid_next, is_connected, server_up, stack, call, expired,
                customers, next_id, resolved, orders, recalculated, redis_call,
                cart_items, campaign_sends, utcnow>>

\* the identifiers the endpoints of main.py resolve customers by
DbEmails == {None, "john@example.com"}
DbPhones == {None, "+1234567890"}
DbWhatsAppPhones == {None, "whatsapp:+1234567890", "1234567890"}

\* an endpoint other than the Twilio webhook resolves a customer
\* (main.py lines 265, 332, 420)
call_find_or_create_customer ==
    /\ db_session.pc = "idle"
    /\ \E email \in DbEmails, phone \in DbPhones, whatsapp_phone \in DbWhatsAppPhones :
           find_or_create_customer(email, phone, whatsapp_phone)
    /\ UNCHANGED <<db_session, db_messages>>
    /\ NoStateChange

\* the senders of the Twilio webhooks
Senders == {"whatsapp:+1234567890", "whatsapp:+15550001111"}

\* twilio_whatsapp_webhook, lines 183-189: the webhook arrives and
\* process_incoming_webhook removes the prefix of the sender
twilio_whatsapp_webhook_start ==
    /\ db_session.pc = "idle"
    /\ Len(db_messages) + 2 <= MaxMessages
    /\ \E From \in Senders :
           db_session' = [NoSession EXCEPT !.pc = "resolve",
               !.from_phone = Str(RemoveAll(Spelling[From], Spelling["whatsapp:"]))]
    /\ UNCHANGED <<db_customers, db_messages, db_resolved>>
    /\ NoStateChange

\* lines 191-195: the customer is found or created
twilio_whatsapp_webhook_resolve ==
    /\ db_session.pc = "resolve"
    /\ find_or_create_customer(None, None, db_session.from_phone)
    /\ db_session' = [db_session EXCEPT !.pc = "incoming",
                                        !.customer = db_resolved'.ret,
                                        !.created = db_resolved'.created]
    /\ UNCHANGED db_messages
    /\ NoStateChange

\* lines 197-220: the incoming message is added to the session
twilio_whatsapp_webhook_incoming ==
    /\ db_session.pc = "incoming"
    /\ db_session' = [db_session EXCEPT !.pc = "response",
           !.pending = Append(@, Message(db_session.customer, "inbound"))]
    /\ UNCHANGED <<db_customers, db_messages, db_resolved>>
    /\ NoStateChange

\* lines 222-238: the response is generated and added to the session
twilio_whatsapp_webhook_response ==
    /\ db_session.pc = "response"
    /\ db_session' = [db_session EXCEPT !.pc = "commit",
           !.pending = Append(@, Message(db_session.customer, "outbound"))]
    /\ UNCHANGED <<db_customers, db_messages, db_resolved>>
    /\ NoStateChange

\* lines 240-247: db.commit() stores what the session holds
twilio_whatsapp_webhook_commit ==
    /\ db_session.pc = "commit"
    /\ db_messages' = db_messages \o db_session.pending
    /\ db_session' = [db_session EXCEPT !.pc = "idle", !.pending = <<>>,
                                        !.outcome = "committed"]
    /\ UNCHANGED <<db_customers, db_resolved>>
    /\ NoStateChange

\* lines 249-252 and get_db, lines 70-73: a step after the customer was
\* resolved raises; the handler returns "" and db.close() drops what the
\* session holds
twilio_whatsapp_webhook_except ==
    /\ db_session.pc \in {"incoming", "response", "commit"}
    /\ db_session' = [db_session EXCEPT !.pc = "idle", !.pending = <<>>,
                                        !.outcome = "failed"]
    /\ UNCHANGED <<db_customers, db_messages, db_resolved>>
    /\ NoStateChange

\* ---------------------------------------------------------------------------
\* The campaign engine (src/campaign_engine.py)
\* ---------------------------------------------------------------------------

\* the largest number of rows of the cart_items table
MaxCarts == 2

\* the campaigns create_cart_abandonment_campaigns stores (lines 36-64), active
Campaigns ==
    << [id |-> 1, trigger_delay_minutes |-> 60, max_sends_per_customer |-> 1,
        is_active |-> TRUE],
       [id |-> 2, trigger_delay_minutes |-> 240, max_sends_per_customer |-> 1,
        is_active |-> TRUE],
       [id |-> 3, trigger_delay_minutes |-> 1440, max_sends_per_customer |-> 1,
        is_active |-> TRUE] >>

\* the customers who fill carts, each with a WhatsApp phone
CartCustomers == {1, 2}

\* the minutes at which carts are filled and campaigns run
Instants == {0, 5, 60, 65, 70, 240, 245, 1440, 1445}

\* a new row of the cart_items table: not recovered, no campaign sent
CartItem(id, customer_id, added_at) ==
    [id |-> id, customer_id |-> customer_id, added_at |-> added_at,
     is_recovered |-> FALSE, campaign_sent_count |-> 0]

\* a row of the campaign_sends table (lines 205-213)
CampaignSend(campaign_id, customer_id, cart_item_id) ==
    [campaign_id |-> campaign_id, customer_id |-> customer_id,
     cart_item_id |-> cart_item_id]

\* lines 97-107: the cart was added within 5 minutes of the trigger time of
\* the campaign and is not recovered
InWindow(cart, campaign, at) ==
    /\ cart.added_at >= at - campaign.trigger_delay_minutes - 5
    /\ cart.added_at <= at - campaign.trigger_delay_minutes + 5
    /\ ~cart.is_recovered

\* lines 111-115: a send of this campaign for this cart of this customer exists
ExistingSend(sends, campaign, cart) ==
    \E i \in 1..Len(sends) :
        /\ sends[i].campaign_id = campaign.id
        /\ sends[i].customer_id = cart.customer_id
        /\ sends[i].cart_item_id = cart.id

\* lines 109-123 without the test of line 117: every cart in the window
ReadyFor_WindowOnly(campaign, carts, sends, at) ==
    LET Ready(cart) == InWindow(cart, campaign, at)
        Pair(cart) == [cart |-> cart.id, campaign |-> campaign.id]
        ready == SelectSeq(carts, Ready)
    IN  [i \in 1..Len(ready) |-> Pair(ready[i])]

\* lines 109-123: the carts of carts ready for the campaign
ReadyFor(campaign, carts, sends, at) ==
    LET Ready(cart) ==
            /\ InWindow(cart, campaign, at)
            /\ ~ExistingSend(sends, campaign, cart)
            /\ cart.campaign_sent_count < campaign.max_sends_per_customer
        Pair(cart) == [cart |-> cart.id, campaign |-> campaign.id]
        ready == SelectSeq(carts, Ready)
    IN  [i \in 1..Len(ready) |-> Pair(ready[i])]

\* CampaignEngine.find_abandoned_carts_for_campaigns: the ready carts of every
\* active campaign, campaign by campaign
RECURSIVE find_abandoned_carts_for_campaigns(_, _, _, _)
find_abandoned_carts_for_campaigns(campaigns, carts, sends, at) ==
    IF campaigns = <<>> THEN <<>>
    ELSE (IF Head(campaigns).is_active
          THEN ReadyFor(Head(campaigns), carts, sends, at) ELSE <<>>)
         \o find_abandoned_carts_for_campaigns(Tail(campaigns), carts, sends, at)

\* CampaignEngine.send_campaign_message, lines 203-238: the tables after the
\* message of cart_data was sent, or was not
send_campaign_message(tables, cart_data, status) ==
    IF status = "sent"
    THEN [sends |-> Append(tables.sends,
                        CampaignSend(cart_data.campaign,
                                     tables.carts[cart_data.cart].customer_id,
                                     cart_data.cart)),
          carts |-> [tables.carts EXCEPT ![cart_data.cart].campaign_sent_count = @ + 1]]
    ELSE tables

\* lines 277-284: the messages of ready_carts are sent one after the other
RECURSIVE SendAll(_, _, _)
SendAll(tables, ready_carts, statuses) ==
    IF ready_carts = <<>> THEN tables
    ELSE SendAll(send_campaign_message(tables, Head(ready_carts), Head(statuses)),
                 Tail(ready_carts), Tail(statuses))

\* what the campaign actions leave alone
NoCustomerChange ==
    UNCHANGED <<store, now, uuid_next, is_connected, server_up, stack, call, expired,
                customers, next_id, resolved, orders, recalculated, redis_call,
                db_customers, db_messages, db_resolved, db_session>>

\* CampaignEngine.run_cart_abandonment_campaigns; WhatsApp sends each message
\* or fails to
run_cart_abandonment_campaigns ==
    LET ready_carts ==
            find_abandoned_carts_for_campaigns(Campaigns, cart_items, campaign_sends, utcnow)
    IN  /\ \E statuses \in [1..Len(ready_carts) -> {"sent", "failed"}] :
               LET tables == SendAll([sends |-> campaign_sends, carts |-> cart_items],
                                     ready_carts, statuses)
               IN  /\ campaign_sends' = tables.sends
                   /\ cart_items' = tables.carts
        /\ UNCHANGED utcnow
        /\ NoCustomerChange

\* database.simulate_cart_abandonment: a customer puts a product in the cart
simulate_cart_abandonment ==
    /\ Len(cart_items) < MaxCarts
    /\ \E customer_id \in CartCustomers :
           cart_items' = Append(cart_items,
                                CartItem(Len(cart_items) + 1, customer_id, utcnow))
    /\ UNCHANGED <<campaign_sends, utcnow>>
    /\ NoCustomerChange

\* CampaignEngine.mark_cart_recovered
mark_cart_recovered ==
    /\ \E cart_item_id \in 1..Len(cart_items) :
           /\ ~cart_items[cart_item_id].is_recovered
           /\ cart_items' = [cart_items EXCEPT ![cart_item_id].is_recovered = TRUE]
    /\ UNCHANGED <<campaign_sends, utcnow>>
    /\ NoCustomerChange

\* time passes until a later instant
ClockAdvance ==
    /\ \E later \in Instants : later > utcnow /\ utcnow' = later
    /\ UNCHANGED <<cart_items, campaign_sends>>
    /\ NoCustomerChange

\* the manager and the tables before any request
InitDb ==
    /\ customers = <<>>
    /\ next_id = 1
    /\ resolved = NoResolved
    /\ orders = <<>>
    /\ recalculated = 0
    /\ redis_call = NoRedisCall
    /\ db_customers = <<>>
    /\ db_messages = <<>>
    /\ db_resolved = NoDbResolved
    /\ db_session = NoSession
    /\ cart_items = <<>>
    /\ campaign_sends = <<>>
    /\ utcnow = 0

\* time passes between two requests, none being served
TickIdle == (\A p \in Procs : Idle(p)) /\ Tick

Init ==
    /\ store = EmptyStore
    /\ now = 0
    /\ uuid_next = 1
    /\ is_connected = TRUE
    /\ server_up = TRUE
    /\ stack = [p \in Procs |-> <<>>]
    /\ call = [p \in Procs |-> IdleCall]
    /\ expired = {}
    /\ InitDb

\* the state after RedisManager() and a successful connect(), with no session yet
\* (Init above); the state right after RedisManager(), not yet connected
InitFault ==
    /\ store = EmptyStore
    /\ now = 0
    /\ uuid_next = 1
    /\ is_connected = FALSE
    /\ server_up \in BOOLEAN
    /\ stack = [p \in Procs |-> <<>>]
    /\ call = [p \in Procs |-> IdleCall]
    /\ expired = {}
    /\ InitDb

\* RedisManager.connect: ping the server, remember whether it answered
connect ==
    /\ is_connected' = server_up
    /\ is_connected' # is_connected
    /\ UNCHANGED <<store, now, uuid_next, server_up, stack, call, expired, dbvars>>

\* the Redis server stops answering / answers again
ServerDown ==
    /\ server_up
    /\ server_up' = FALSE
    /\ UNCHANGED <<store, now, uuid_next, is_connected, stack, call, expired, dbvars>>

ServerUp ==
    /\ ~server_up
    /\ server_up' = TRUE
    /\ UNCHANGED <<store, now, uuid_next, is_connected, stack, call, expired, dbvars>>

\* one request at a time against a connected store, calls in immediate succession
Next ==
    \/ Call(1, {"cust_1"}, UpdateChoices, Flows, Outcomes)
    \/ Step(1)

Spec == Init /\ [][Next]_vars

\* one request at a time against a connected store, with time passing between requests
NextTtl ==
    \/ Call(1, {"cust_1"}, {UpdateTest}, {"support"}, {"resolved"})
    \/ Step(1)
    \/ TickIdle

SpecTtl == Init /\ [][NextTtl]_vars

\* one request at a time against a store that may be unreachable at any moment
NextFault ==
    \/ Call(1, {"cust_1"}, {UpdateTest}, {"support"}, {"resolved"})
    \/ Step(1)
    \/ connect
    \/ ServerDown
    \/ ServerUp

SpecFault == InitFault /\ [][NextFault]_vars

\* two requests for the same customer served at once
NextRace ==
    \/ \E p \in Procs :
        \/ call_create_new_session(p, {"cust_1"})
        \/ call_update_state(p, {"cust_1"}, UpdateChoices)
        \/ create_new_session_set(p)
        \/ update_state_get(p)
        \/ update_state_set(p)

SpecRace == Init /\ [][NextRace]_vars

\* two requests for the same customer served at once, one of which may clear
\* the session
NextClear ==
    \/ \E p \in Procs :
        \/ call_create_new_session(p, {"cust_1"})
        \/ call_get_state(p, {"cust_1"})
        \/ call_update_state(p, {"cust_1"}, {UpdateTest})
        \/ call_clear_session(p, {"cust_1"})
        \/ create_new_session_set(p)
        \/ get_state_get(p)
        \/ get_state_set(p)
        \/ update_state_get(p)
        \/ update_state_set(p)
        \/ clear_session_delete(p)

SpecClear == Init /\ [][NextClear]_vars

\* one request at a time, for one customer while a second customer's session
\* comes and goes
NextTwo ==
    \/ Call(1, {"cust_1"}, {UpdateTest}, {"support"}, {"resolved"})
    \/ call_create_new_session(1, {"cust_2"})
    \/ call_clear_session(1, {"cust_2"})
    \/ Step(1)

SpecTwo == Init /\ [][NextTwo]_vars

\* sessions created and updated one request at a time, with time passing between
NextPaths ==
    \/ call_create_new_session(1, {"cust_1"})
    \/ call_update_state(1, {"cust_1"}, UpdateChoices)
    \/ create_new_session_set(1)
    \/ update_state_get(1)
    \/ update_state_set(1)
    \/ TickIdle

SpecPaths == Init /\ [][NextPaths]_vars

\* the support flow of one customer, one request at a time on a connected store
NextSupport ==
    \/ call_start_support_flow(1, {"cust_1"})
    \/ call_process_support_message(1, {"cust_1"}, Messages)
    \/ SupportStep(1)
    \/ StateStep(1)

SpecSupport == Init /\ [][NextSupport]_vars

\* the answers of a customer who types the numbers, or something else
FewMessages == {"1", "2", "Hello "}

\* a customer without a session asks for support
call_first_support_flow(p, Cs) ==
    /\ \A c \in Cs : ~HasSession(store, c)
    /\ call_start_support_flow(p, Cs)

\* the support flow of a customer who types the numbers, or something else, on
\* a connected store, where a request that was accepted is served to its end
NextSupportLive ==
    \/ call_start_support_flow(1, {"cust_1"})
    \/ call_process_support_message(1, {"cust_1"}, FewMessages)
    \/ SupportStep(1)
    \/ StateStep(1)

SpecSupportLive ==
    Init /\ [][NextSupportLive]_vars /\ WF_vars(SupportStep(1) \/ StateStep(1))

\* the first support flow of a customer against a server that may stop
\* answering, and answer again, at any moment
NextSupportFault ==
    \/ call_first_support_flow(1, {"cust_1"})
    \/ call_process_support_message(1, {"cust_1"}, FewMessages)
    \/ SupportStep(1)
    \/ StateStep(1)
    \/ ServerDown
    \/ ServerUp

SpecSupportFault == Init /\ [][NextSupportFault]_vars

\* a request that completes the customer's flow, made once
call_one_complete_flow(p, Cs) ==
    /\ call[p] = IdleCall
    /\ call_complete_flow(p, Cs, {"resolved"})

\* the first support flow of a customer, while a second request completes the
\* customer's flow at some moment
NextSupportRace ==
    \/ call_first_support_flow(1, {"cust_1"})
    \/ call_process_support_message(1, {"cust_1"}, FewMessages)
    \/ SupportStep(1)
    \/ StateStep(1)
    \/ call_one_complete_flow(2, {"cust_1"})
    \/ complete_flow_start(2)
    \/ complete_flow_got_state(2)
    \/ get_state_get(2)
    \/ get_state_set(2)
    \/ update_state_get(2)
    \/ update_state_set(2)

SpecSupportRace == Init /\ [][NextSupportRace]_vars

\* customers are resolved by NewCustomerManager, one call after another
NextResolve == call_new_find_or_create_customer

SpecResolve == Init /\ [][NextResolve]_vars

\* customers are created, orders added and totals recalculated
NextTotals ==
    \/ call_new_find_or_create_customer_email
    \/ call_add_order
    \/ call_recalculate_customer_totals

SpecTotals == Init /\ [][NextTotals]_vars

\* customers are resolved by their phones as typed
NextNormalize == call_new_find_or_create_customer_phone

SpecNormalize == Init /\ [][NextNormalize]_vars

\* the endpoints of main.py resolve customers in the customers table and
\* handle Twilio webhooks, any step of which may raise once the customer is known
NextWebhook ==
    \/ call_find_or_create_customer
    \/ twilio_whatsapp_webhook_start
    \/ twilio_whatsapp_webhook_resolve
    \/ twilio_whatsapp_webhook_incoming
    \/ twilio_whatsapp_webhook_response
    \/ twilio_whatsapp_webhook_commit
    \/ twilio_whatsapp_webhook_except

SpecWebhook == Init /\ [][NextWebhook]_vars

\* customers fill carts, buy or do not, and the campaign engine runs now and then
NextCampaign ==
    \/ simulate_cart_abandonment
    \/ mark_cart_recovered
    \/ ClockAdvance
    \/ run_cart_abandonment_campaigns

SpecCampaign == Init /\ [][NextCampaign]_vars

\* RedisManager called directly, while time passes and the server fails
NextRedis ==
    \/ call_set_data
    \/ call_get_data
    \/ call_get_ttl
    \/ call_delete_data
    \/ Tick
    \/ ServerDown
    \/ ServerUp

SpecRedis == Init /\ [][NextRedis]_vars

(***************************************************************************)
(* Properties                                                              *)
(***************************************************************************)
\* request p has just returned from the public method op
Returned(p, op) == call[p].status = "returned" /\ call[p].op = op

Key(p) == get_conversation_key(call[p].cust)

\* the session of the call's customer before the call / as the call leaves it
HadSession(p) == HasSession(call[p].pre, call[p].cust)

Before(p) == Session(call[p].pre, call[p].cust)

After(p) == Session(store, call[p].cust)

Seconds(iso) == iso[2]

\* C1: start_flow(C, F) with no session for C creates a session and returns
\* true; the stored session has current_flow F, current_step "flow_started",
\* empty collected_data and total_flows_started 1.
C1_StartFlowCreatesSession ==
    \A p \in Procs :
        (Returned(p, "start_flow") /\ ~HadSession(p)) =>
            /\ call[p].ret = TRUE
            /\ HasSession(store, call[p].cust)
            /\ After(p).customer_id = call[p].cust
            /\ After(p).session_id = SessionId(uuid_next - 1)
            /\ After(p).current_flow = call[p].arg
            /\ After(p).current_step = "flow_started"
            /\ After(p).collected_data = EmptyDict
            /\ After(p).metadata.total_flows_started = 1

C1_Witness ==
    \E p \in Procs :
        /\ Returned(p, "start_flow")
        /\ ~HadSession(p)
        /\ call[p].ret = TRUE
        /\ HasSession(store, call[p].cust)
        /\ After(p).current_flow = "support"

\* C2: complete_flow(C, outcome) with a flow active returns true and appends
\* exactly one record (the active flow's name, the outcome, the collected_data
\* of before the call) to flow_history; current_flow and current_step become
\* None, collected_data empty, total_flows_completed one higher, and the
\* earlier records stay as they were.
C2_CompleteFlowRecords ==
    \A p \in Procs :
        (Returned(p, "complete_flow") /\ HadSession(p) /\ Before(p).current_flow # None) =>
            /\ call[p].ret = TRUE
            /\ HasSession(store, call[p].cust)
            /\ Len(After(p).flow_history) = Len(Before(p).flow_history) + 1
            /\ SubSeq(After(p).flow_history, 1, Len(Before(p).flow_history))
                    = Before(p).flow_history
            /\ LET r == After(p).flow_history[Len(After(p).flow_history)]
               IN  /\ r.flow = Before(p).current_flow
                   /\ r.outcome = call[p].arg
                   /\ r.data_collected = Before(p).collected_data
            /\ After(p).current_flow = None
            /\ After(p).current_step = None
            /\ After(p).collected_data = EmptyDict
            /\ After(p).metadata.total_flows_completed
                    = Before(p).metadata.total_flows_completed + 1

C2_Witness ==
    \E p \in Procs :
        /\ Returned(p, "complete_flow")
        /\ HadSession(p)
        /\ Before(p).current_flow # None
        /\ Before(p).collected_data # EmptyDict
        /\ Before(p).flow_history # <<>>
        /\ call[p].ret = TRUE
        /\ Len(After(p).flow_history) = 2

\* the fields complete_flow must leave alone when it fails
FlowFields(s) ==
    << s.flow_history, s.current_flow, s.current_step, s.collected_data,
       s.metadata.total_flows_started, s.metadata.total_flows_completed >>

\* C3: complete_flow(C, outcome) returns false when C has no session or an
\* idle one; flow_history, current_flow, current_step, collected_data and the
\* flow counters are unchanged and no session is created.
C3_CompleteFlowFails ==
    \A p \in Procs :
        (Returned(p, "complete_flow") /\ (~HadSession(p) \/ Before(p).current_flow = None)) =>
            /\ call[p].ret = FALSE
            /\ HasSession(store, call[p].cust) = HadSession(p)
            /\ HadSession(p) => FlowFields(After(p)) = FlowFields(Before(p))

C3_Witness ==
    \E p \in Procs :
        /\ Returned(p, "complete_flow")
        /\ HadSession(p)
        /\ Before(p).current_flow = None
        /\ Before(p).flow_history # <<>>
        /\ call[p].ret = FALSE

\* C4: update_state(C, updates) with no session for C (never created, cleared
\* or expired) returns false and writes nothing: the store has no entry for C
\* afterwards.
C4_UpdateWithoutSession ==
    \A p \in Procs :
        (Returned(p, "update_state") /\ ~HadSession(p)) =>
            /\ call[p].ret = FALSE
            /\ store = call[p].pre
            /\ ~HasSession(store, call[p].cust)

C4_Witness ==
    \E p \in Procs :
        /\ Returned(p, "update_state")
        /\ ~HadSession(p)
        /\ Key(p) \in expired
        /\ call[p].ret = FALSE

\* whether the call reported success
Succeeded(p) ==
    IF call[p].op = "get_state" THEN call[p].ret # NoState ELSE call[p].ret = TRUE

\* C5: after a successful get_state, update_state, start_flow or complete_flow
\* on an existing session the remaining TTL of the session key is the full
\* session_timeout, whatever had elapsed before the call.
C5_SlidingTtl ==
    \A p \in Procs :
        ( /\ call[p].status = "returned"
          /\ call[p].op \in {"get_state", "update_state", "start_flow", "complete_flow"}
          /\ HadSession(p)
          /\ Succeeded(p) ) =>
            /\ HasSession(store, call[p].cust)
            /\ store[Key(p)].ttl = session_timeout

C5_Witness ==
    \E p \in Procs :
        /\ Returned(p, "complete_flow")
        /\ HadSession(p)
        /\ call[p].pre[Key(p)].ttl < session_timeout
        /\ call[p].ret = TRUE
        /\ store[Key(p)].ttl = session_timeout

\* C6: a session that gets no create_session, get_state, update_state,
\* start_flow or complete_flow for session_timeout seconds is gone without any
\* deletion call; from then on get_state returns None, has_active_session
\* false and update_state false, until a session is created again.
C6_IdleExpiry ==
    /\ \A c \in Customers :
        HasSession(store, c) =>
            now - Seconds(Session(store, c).metadata.last_activity) < session_timeout
    /\ \A k \in expired : k \notin DOMAIN store
    /\ \A p \in Procs :
        (call[p].status = "returned" /\ Key(p) \in expired) =>
            /\ call[p].op = "get_state" => call[p].ret = NoState
            /\ call[p].op = "has_active_session" => call[p].ret = FALSE
            /\ call[p].op = "update_state" => call[p].ret = FALSE

C6_Witness ==
    \E p \in Procs :
        /\ Returned(p, "has_active_session")
        /\ Key(p) \in expired
        /\ call[p].ret = FALSE
        /\ call[p].prev = NoPrev

\* C7: has_active_session(C) only reports whether an entry exists; the stored
\* session (last_activity included) and its remaining TTL stay as they were.
C7_HasActiveSessionReadOnly ==
    \A p \in Procs :
        Returned(p, "has_active_session") =>
            /\ store = call[p].pre
            /\ call[p].ret = HadSession(p)

C7_Witness ==
    \E p \in Procs :
        /\ Returned(p, "has_active_session")
        /\ HadSession(p)
        /\ call[p].ret = TRUE
        /\ store[Key(p)].ttl = session_timeout - 2 * TickSeconds
        /\ now - Seconds(After(p).metadata.last_activity) = 2 * TickSeconds

\* what update_state of request p writes when it starts from the state it loaded
Written(p) == Touch(ApplyUpdates(call[p].seen, call[p].arg), now)

\* C8: two concurrent update_state calls for one customer are not mutually
\* excluded: when both loaded the same stored session and both returned true,
\* the stored session is that session with the change of one call only (the
\* last writer's); the other call's change is lost.
C8_LastWriterWins ==
    \A p, q \in Procs :
        ( /\ p # q
          /\ Returned(p, "update_state") /\ Returned(q, "update_state")
          /\ call[p].cust = call[q].cust
          /\ call[p].ret = TRUE /\ call[q].ret = TRUE
          /\ call[p].seen = call[q].seen ) =>
            /\ HasSession(store, call[p].cust)
            /\ After(p) \in {Written(p), Written(q)}

C8_Witness ==
    \E p, q \in Procs :
        /\ p # q
        /\ Returned(p, "update_state") /\ Returned(q, "update_state")
        /\ call[p].cust = call[q].cust
        /\ call[p].ret = TRUE /\ call[q].ret = TRUE
        /\ call[p].seen = call[q].seen
        /\ call[p].arg = UpdateTest /\ call[q].arg = UpdateNested
        /\ "context" \in DOMAIN After(p)
        /\ After(p).current_step = None
        /\ After(p).metadata.message_count = 0

\* the safe default of each public method: None for the ones that return a
\* state, False for the ones that return a bool
SafeDefault(p) ==
    IF call[p].op \in {"create_new_session", "get_state", "get_or_create_state"}
    THEN call[p].ret = NoState
    ELSE call[p].ret = FALSE

\* C9: while the key-value store is unavailable (every store call of the
\* operation fails) every public ConversationState operation returns the safe
\* default False or None.
C9_UnavailableSafeDefault ==
    \A p \in Procs :
        (call[p].status = "returned" /\ call[p].unavail) => SafeDefault(p)

\* C10: create_session(C) followed at once by get_state(C) returns a state
\* with the session_id create_session returned, no flow, no step, empty
\* collected_data and flow_history, and message_count 0.
C10_CreateThenGet ==
    \A p \in Procs :
        ( /\ Returned(p, "get_state")
          /\ call[p].prev.op = "create_new_session"
          /\ call[p].prev.cust = call[p].cust ) =>
            /\ call[p].ret # NoState
            /\ call[p].ret.session_id = call[p].prev.ret.session_id
            /\ call[p].ret.current_flow = None
            /\ call[p].ret.current_step = None
            /\ call[p].ret.collected_data = EmptyDict
            /\ call[p].ret.flow_history = <<>>
            /\ call[p].ret.metadata.message_count = 0

C10_Witness ==
    \E p \in Procs :
        /\ Returned(p, "get_state")
        /\ call[p].prev.op = "create_new_session"
        /\ call[p].prev.cust = call[p].cust
        /\ call[p].ret # NoState
        /\ call[p].ret.session_id = SessionId(2)
        /\ HadSession(p)

\* the entries of the customers other than the call's are the ones the call found
OthersUntouched(p) ==
    \A c \in Customers \ {call[p].cust} :
        /\ HasSession(store, c) <=> HasSession(call[p].pre, c)
        /\ HasSession(store, c) =>
                store[get_conversation_key(c)] = call[p].pre[get_conversation_key(c)]

\* C11: create_session(C) replaces whatever session C had: after it the store
\* holds one session for C, with a session_id no stored session had before, no
\* active flow, empty flow_history and zeroed counters, whatever the previous
\* session held; the sessions of the other customers are untouched.
C11_CreateReplaces ==
    \A p \in Procs :
        Returned(p, "create_new_session") =>
            /\ HasSession(store, call[p].cust)
            /\ After(p) = call[p].ret
            /\ After(p).customer_id = call[p].cust
            /\ \A k \in DOMAIN call[p].pre :
                    JsonLoads(call[p].pre[k].json).session_id # After(p).session_id
            /\ After(p).current_flow = None
            /\ After(p).current_step = None
            /\ After(p).collected_data = EmptyDict
            /\ After(p).flow_history = <<>>
            /\ After(p).metadata.message_count = 0
            /\ After(p).metadata.total_flows_started = 0
            /\ After(p).metadata.total_flows_completed = 0
            /\ OthersUntouched(p)

\* a session with a completed flow and an update behind it is replaced while
\* the other customer has a session
C11_Witness ==
    \E p \in Procs :
        /\ Returned(p, "create_new_session")
        /\ call[p].cust = "cust_1"
        /\ HadSession(p)
        /\ Before(p).flow_history # <<>>
        /\ Before(p).metadata.message_count = 3
        /\ HasSession(call[p].pre, "cust_2")
        /\ After(p).flow_history = <<>>

\* the call follows at once a clear_session of the same customer that returned true
AfterClear(p) ==
    /\ call[p].status = "returned"
    /\ call[p].prev.op = "clear_session"
    /\ call[p].prev.cust = call[p].cust
    /\ call[p].prev.ret = TRUE

\* C12: right after clear_session(C) returned true, has_active_session(C) is
\* false, get_state(C) returns None and update_state(C, ...) returns false;
\* clear_session(C) with no session for C returns false; a clear_session
\* leaves the sessions of the other customers as they were.
C12_ClearSession ==
    \A p \in Procs :
        /\ AfterClear(p) =>
            /\ call[p].op = "has_active_session" => call[p].ret = FALSE
            /\ call[p].op = "get_state" => call[p].ret = NoState
            /\ call[p].op = "update_state" => call[p].ret = FALSE
        /\ Returned(p, "clear_session") =>
            /\ ~HadSession(p) => call[p].ret = FALSE
            /\ call[p].ret = TRUE => ~HasSession(store, call[p].cust)
            /\ OthersUntouched(p)

\* an update is refused right after the session was cleared, the other
\* customer's session still stored
C12_Witness ==
    \E p \in Procs :
        /\ AfterClear(p)
        /\ call[p].op = "update_state"
        /\ call[p].ret = FALSE
        /\ call[p].cust = "cust_1"
        /\ HasSession(store, "cust_2")

\* the entries of an updates dict: is there one for this path, its value, the
\* keys set inside sub-map a by dotted paths, the top-level keys touched
HasEntry(updates, path) == \E i \in DOMAIN updates : updates[i][1] = path

ValueOf(updates, path) == updates[CHOOSE i \in DOMAIN updates : updates[i][1] = path][2]

SubKeys(updates, a) ==
    { updates[i][1][2] :
        i \in { j \in DOMAIN updates : Len(updates[j][1]) = 2 /\ updates[j][1][1] = a } }

TopKeys(updates) == { updates[i][1][1] : i \in DOMAIN updates }

\* C13: a successful update_state sets, for a dotted path "a.b", only key b
\* inside sub-map a (a starting as an empty map when absent) and replaces, for
\* a plain key, only that top-level field; every other top-level and nested
\* field keeps its value, except metadata.last_activity, which is the time of
\* the update.
C13_UpdatePaths ==
    \A p \in Procs :
        (Returned(p, "update_state") /\ call[p].ret = TRUE) =>
            LET u == call[p].arg
                old == Before(p)
                new == After(p)
            IN  /\ DOMAIN new = DOMAIN old \cup TopKeys(u)
                /\ \A k \in DOMAIN new :
                    IF HasEntry(u, <<k>>)
                    THEN new[k] = ValueOf(u, <<k>>)
                    ELSE IF SubKeys(u, k) # {} \/ k = "metadata"
                    THEN LET sub == IF k \in DOMAIN old THEN old[k] ELSE EmptyDict
                         IN  /\ DOMAIN new[k] = DOMAIN sub \cup SubKeys(u, k)
                             /\ \A j \in DOMAIN new[k] :
                                 IF k = "metadata" /\ j = "last_activity"
                                 THEN new[k][j] = IsoFormat(now)
                                 ELSE IF j \in SubKeys(u, k)
                                 THEN new[k][j] = ValueOf(u, <<k, j>>)
                                 ELSE new[k][j] = sub[j]
                    ELSE new[k] = old[k]

\* a dotted path into an absent sub-map, on a session an earlier update had
\* filled, some time after that update
C13_Witness ==
    \E p \in Procs :
        /\ Returned(p, "update_state")
        /\ call[p].ret = TRUE
        /\ call[p].arg = UpdateNested
        /\ "context" \notin DOMAIN Before(p)
        /\ Before(p).metadata.message_count = 3
        /\ After(p).context = [channel |-> "whatsapp"]
        /\ After(p).collected_data = [issue |-> "order_problem"]
        /\ Seconds(After(p).metadata.last_activity) > Seconds(Before(p).metadata.last_activity)

\* request p has just returned from process_support_message, called while the
\* customer's support flow stood at the step
AtStep(p, current_step) ==
    /\ Returned(p, "process_support_message")
    /\ HadSession(p)
    /\ Before(p).current_flow = "support"
    /\ Before(p).current_step = current_step

\* the choices of step 1_issue_type: per category its number and its keywords
SelectionWords ==
    ( "order_issue" :> {"1", "order", "order issue", "delivery", "tracking"} ) @@
    ( "product_question" :> {"2", "product", "product question", "features"} ) @@
    ( "account_problem" :> {"3", "account", "account problem", "login", "billing"} ) @@
    ( "return_refund" :> {"4", "return", "refund", "return refund"} )

\* C14: at step 1_issue_type an input that is, lower-cased and trimmed, the
\* number or a keyword of a category moves current_step to 2_collect_details
\* and stores that category in collected_data.issue_type, the data collected
\* so far kept; "1" stores "order_issue".
C14_SelectionAccepted ==
    \A p \in Procs : \A category \in DOMAIN SelectionWords :
        (AtStep(p, "1_issue_type") /\ lower_strip(call[p].arg) \in SelectionWords[category]) =>
            /\ HasSession(store, call[p].cust)
            /\ After(p).current_flow = "support"
            /\ After(p).current_step = "2_collect_details"
            /\ DOMAIN After(p).collected_data =
                    DOMAIN Before(p).collected_data \cup {"issue_type"}
            /\ After(p).collected_data.issue_type = category
            /\ \A k \in DOMAIN Before(p).collected_data \ {"issue_type"} :
                    After(p).collected_data[k] = Before(p).collected_data[k]
            /\ call[p].arg = "1" => After(p).collected_data.issue_type = "order_issue"

\* a keyword typed in capitals selects its category, the first message kept
C14_Witness ==
    \E p \in Procs :
        /\ AtStep(p, "1_issue_type")
        /\ call[p].arg = "TRACKING"
        /\ After(p).current_step = "2_collect_details"
        /\ After(p).collected_data.issue_type = "order_issue"
        /\ After(p).collected_data.initial_message = InitialMessage

\* C15: at step 1_issue_type an input that is no number and no keyword of any
\* category leaves current_flow, current_step, collected_data, flow_history
\* and metadata.message_count of the stored session as they were, and the
\* response is an error line followed by the issue-type prompt and its four
\* numbered options.
C15_SelectionRejected ==
    \A p \in Procs :
        ( /\ AtStep(p, "1_issue_type")
          /\ \A category \in DOMAIN SelectionWords :
                lower_strip(call[p].arg) \notin SelectionWords[category] ) =>
            /\ HasSession(store, call[p].cust)
            /\ After(p).current_flow = Before(p).current_flow
            /\ After(p).current_step = Before(p).current_step
            /\ After(p).collected_data = Before(p).collected_data
            /\ After(p).flow_history = Before(p).flow_history
            /\ After(p).metadata.message_count = Before(p).metadata.message_count
            /\ call[p].ret.response =
                    << "Please select a valid option:", "",
                       "I'll help you with that! What type of issue are you having?", "",
                       "1. Order issue (delivery, tracking, etc.)",
                       "2. Product question (features, compatibility)",
                       "3. Account problem (login, billing, etc.)",
                       "4. Return or refund request" >>

\* a near miss of a keyword is rejected in the second flow of the session
C15_Witness ==
    \E p \in Procs :
        /\ AtStep(p, "1_issue_type")
        /\ call[p].arg = "orders"
        /\ Before(p).flow_history # <<>>
        /\ After(p).current_step = "1_issue_type"
        /\ Len(call[p].ret.response) = 8

\* the answers of step 5_confirmation: per outcome its number and its words
ConfirmationWords ==
    ( "resolved" :> {"1", "yes", "resolved", "fixed", "good"} ) @@
    ( "escalated" :> {"2", "no", "not resolved", "still need help"} )

\* the answer of the call, lower-cased and trimmed, is a word of some outcome
Confirms(p) ==
    \E outcome \in DOMAIN ConfirmationWords :
        lower_strip(call[p].arg) \in ConfirmationWords[outcome]

Last(seq) == seq[Len(seq)]

\* C16: at step 5_confirmation a yes-class answer completes the flow with
\* outcome "resolved", a no-class answer completes it with outcome "escalated"
\* (either in any letter case), and any other answer keeps the flow active at
\* 5_confirmation with flow_history unchanged and shows the yes/no prompt again.
C16_Confirmation ==
    \A p \in Procs :
        AtStep(p, "5_confirmation") =>
            /\ HasSession(store, call[p].cust)
            /\ \A outcome \in DOMAIN ConfirmationWords :
                lower_strip(call[p].arg) \in ConfirmationWords[outcome] =>
                    /\ After(p).current_flow = None
                    /\ Len(After(p).flow_history) = Len(Before(p).flow_history) + 1
                    /\ Last(After(p).flow_history).flow = "support"
                    /\ Last(After(p).flow_history).outcome = outcome
                    /\ After(p).metadata.total_flows_completed =
                            Before(p).metadata.total_flows_completed + 1
            /\ ~Confirms(p) =>
                    /\ After(p).current_flow = "support"
                    /\ After(p).current_step = "5_confirmation"
                    /\ After(p).flow_history = Before(p).flow_history
                    /\ call[p].ret.response =
                            << "Please let me know if the solution helped:", "",
                               "1. Yes, issue resolved!", "2. No, I still need help" >>

\* a no-class phrase in capitals escalates the second flow of the session
C16_Witness ==
    \E p \in Procs :
        /\ AtStep(p, "5_confirmation")
        /\ call[p].arg = "Still Need Help"
        /\ Len(After(p).flow_history) = 2
        /\ Last(After(p).flow_history).outcome = "escalated"

C18_SessionCleared ==
    \A p \in Procs :
        (AtStep(p, "5_confirmation") /\ call[p].arg = "1") =>
            /\ HasSession(store, call[p].cust) => After(p).current_flow = None
            /\ get_data(Key(p)) = NoState

\* a stored session or flow record of a product question with additional_info
ProductInfoCollected ==
    \E c \in Customers :
        /\ HasSession(store, c)
        /\ \/ /\ DictGet(Session(store, c).collected_data, "issue_type", "") = "product_question"
              /\ "additional_info" \in DOMAIN Session(store, c).collected_data
           \/ \E i \in DOMAIN Session(store, c).flow_history :
                LET data == Session(store, c).flow_history[i].data_collected
                IN  /\ DictGet(data, "issue_type", "") = "product_question"
                    /\ "additional_info" \in DOMAIN data

\* C19: at step 2_collect_details the message is stored as
\* collected_data.problem_details; with category order_issue, account_problem
\* or return_refund the flow moves to 3_gather_info; with product_question the
\* solution is produced in the same call, current_step ends at 5_confirmation,
\* and no product question ever has additional_info collected.
C19_DetailCollection ==
    /\ ~ProductInfoCollected
    /\ \A p \in Procs :
        AtStep(p, "2_collect_details") =>
            LET issue_type == Before(p).collected_data.issue_type
            IN  /\ HasSession(store, call[p].cust)
                /\ After(p).collected_data.problem_details = call[p].arg
                /\ After(p).collected_data.issue_type = issue_type
                /\ issue_type \in {"order_issue", "account_problem", "return_refund"} =>
                        /\ After(p).current_step = "3_gather_info"
                        /\ "solution_provided" \notin DOMAIN After(p).collected_data
                /\ issue_type = "product_question" =>
                        /\ After(p).current_step = "5_confirmation"
                        /\ "solution_provided" \in DOMAIN After(p).collected_data
                        /\ "additional_info" \notin DOMAIN After(p).collected_data
                        /\ call[p].ret.response[1] =
                                "I'd be happy to help with product information:"

\* a product question gets its solution in the call that took the details
C19_Witness ==
    \E p \in Procs :
        /\ AtStep(p, "2_collect_details")
        /\ Before(p).collected_data.issue_type = "product_question"
        /\ After(p).current_step = "5_confirmation"
        /\ After(p).collected_data.problem_details = DetailsMessage
        /\ After(p).metadata.message_count = Before(p).metadata.message_count + 2

\* the step a session stands at was written together with the data of the
\* step before it
StepPersisted(s) ==
    /\ s.current_step = "2_collect_details" => "issue_type" \in DOMAIN s.collected_data
    /\ s.current_step \in {"3_gather_info", "4_provide_solution"} =>
            "problem_details" \in DOMAIN s.collected_data
    /\ s.current_step = "5_confirmation" => "solution_provided" \in DOMAIN s.collected_data

\* request p has just returned the reply of the except clause
ErrorReplied(p) ==
    /\ Returned(p, "process_support_message")
    /\ call[p].ret.response = ExceptResponse

\* C20: process_support_message never lets an exception out: when a step
\* handler raises, the call returns the generic error response, the step in
\* which the exception is caught writes nothing to the store, and the stored
\* session stands at a step that was persisted whole, with its data.
C20_NoPropagation ==
    /\ [](\A p \in Procs :
            /\ call[p].status # "raised"
            /\ ErrorReplied(p) =>
                /\ call[p].ret.state = EmptyDict
                /\ HasSession(store, call[p].cust) => StepPersisted(After(p)))
    /\ [][\A p \in Procs :
            (call[p].status = "running" /\ ErrorReplied(p)') => store' = store]_vars

\* the server stops answering after additional_info was written: the handler
\* raises on the state it could not load, and the session stays at 4_provide_solution
C20_Witness ==
    \E p \in Procs :
        /\ ErrorReplied(p)
        /\ HasSession(store, call[p].cust)
        /\ Before(p).current_step = "3_gather_info"
        /\ After(p).current_step = "4_provide_solution"
        /\ After(p).collected_data.additional_info = InfoMessage

\* the normalized numbers a resolver call was given
GivenNumbers(r) == {Normalized[r.phone], Normalized[r.whatsapp_phone]} \ {None}

\* the call gave no email and one number, as phone, as WhatsApp phone or as both
PhoneOnly(r) == ~Truthy(r.email) /\ Cardinality(GivenNumbers(r)) = 1

\* C21: when two successive calls of new_find_or_create_customer give no email
\* and numbers with the same normalized form, as phone or as WhatsApp phone,
\* the second call returns the id the first returned and adds no record, so
\* that a manager holding one record after the first call still holds one
C21_SamePhoneSameCustomer ==
    [][(/\ resolved.ret /= 0
        /\ PhoneOnly(resolved)
        /\ PhoneOnly(resolved')
        /\ GivenNumbers(resolved') = GivenNumbers(resolved))
       => (resolved'.ret = resolved.ret /\ Len(customers') = Len(customers))]_vars

\* the number of test_phone_number_duplicate_problem came as a WhatsApp phone
\* and then without its country code as a phone: one record holds it as both
C21_Witness ==
    /\ resolved.phone = "1234567890"
    /\ resolved.whatsapp_phone = None
    /\ resolved.email = None
    /\ resolved.ret = 1
    /\ Len(customers) = 1
    /\ customers[1].whatsapp_phone = "+11234567890"
    /\ customers[1].phone = "+11234567890"

\* C22: two successive calls of database.find_or_create_customer that give no
\* email and numbers differing only in what normalization removes or adds,
\* whichever of phone and whatsapp_phone carries them, return the same row
C22_DatabaseNormalizes ==
    [][(/\ db_resolved.ret /= 0
        /\ PhoneOnly(db_resolved)
        /\ PhoneOnly(db_resolved')
        /\ GivenNumbers(db_resolved') = GivenNumbers(db_resolved))
       => db_resolved'.ret = db_resolved.ret]_vars

\* C23: no two records of NewCustomerManager hold the same non-empty phone
C23_PhoneUnique ==
    \A i, j \in 1..Len(customers) :
        (i /= j /\ Truthy(customers[i].phone)) => customers[i].phone /= customers[j].phone

\* C24: no two records of NewCustomerManager hold the same non-empty email
C24_EmailUnique ==
    \A i, j \in 1..Len(customers) :
        (i /= j /\ Truthy(customers[i].email)) => customers[i].email /= customers[j].email

\* a call gave the email the first record holds while another record holds
\* another email: it found the first record and created none
C24_Witness ==
    /\ Len(customers) = 2
    /\ Truthy(customers[1].email)
    /\ Truthy(customers[2].email)
    /\ resolved.email = customers[1].email
    /\ resolved.found = "email"
    /\ resolved.ret = customers[1].id

\* C25: a call of new_find_or_create_customer removes no record, keeps every
\* id and every email, phone and WhatsApp phone that is not empty, and so
\* changes a field only by filling it
C25_AdditiveOnly ==
    [][/\ Len(customers') >= Len(customers)
       /\ \A i \in 1..Len(customers) :
              /\ customers'[i].id = customers[i].id
              /\ \A f \in {"email", "phone", "whatsapp_phone"} :
                     Truthy(customers[i][f]) => customers'[i][f] = customers[i][f]]_vars

\* a call found a record by email and filled its phone, while the WhatsApp
\* phone it gave differs from the one the record keeps
C25_Witness ==
    /\ resolved.found = "email"
    /\ resolved.filled = {"phone"}
    /\ Truthy(resolved.whatsapp_phone)
    /\ \E i \in 1..Len(customers) :
           /\ customers[i].id = resolved.ret
           /\ customers[i].whatsapp_phone /= Normalized[resolved.whatsapp_phone]

\* C26: when a call finds a record by its email E and the phone of that
\* record is empty, the call returns that record, whose phone is then the
\* normalized phone of the call and whose email is still E, and adds no record
C26_EmailMatchFillsPhone ==
    [][\A i \in 1..Len(customers) :
           (/\ resolved' /= resolved
            /\ Truthy(resolved'.email)
            /\ customers[i].email = resolved'.email
            /\ \A j \in 1..(i - 1) : customers[j].email /= resolved'.email
            /\ ~Truthy(customers[i].phone))
           => (/\ resolved'.ret = customers[i].id
               /\ customers'[i].phone = Normalized[resolved'.phone]
               /\ customers'[i].email = resolved'.email
               /\ Len(customers') = Len(customers))]_vars

\* the record created for john@example.com without a phone was found by that
\* email and given the phone of the call
C26_Witness ==
    /\ resolved.email = "john@example.com"
    /\ resolved.phone = "1234567890"
    /\ resolved.found = "email"
    /\ "phone" \in resolved.filled
    /\ \E i \in 1..Len(customers) :
           /\ customers[i].id = resolved.ret
           /\ customers[i].email = "john@example.com"
           /\ customers[i].phone = "+11234567890"

\* the first record of records holding the number, 0 when none does or the
\* number is empty
FirstHolding(records, number) ==
    IF Truthy(number) /\ \E i \in 1..Len(records) : HoldsPhone(records[i], number)
    THEN CHOOSE i \in 1..Len(records) :
             /\ HoldsPhone(records[i], number)
             /\ \A j \in 1..(i - 1) : ~HoldsPhone(records[j], number)
    ELSE 0

\* the record a call must return: the one holding its email; when its email
\* is held by none, the first holding its phone; when that is held by none,
\* the first holding its WhatsApp phone; 0 when a record is to be created
Expected(records, r) ==
    LET by_email == IF Truthy(r.email) /\ \E i \in 1..Len(records) : records[i].email = r.email
                    THEN CHOOSE i \in 1..Len(records) :
                             /\ records[i].email = r.email
                             /\ \A j \in 1..(i - 1) : records[j].email /= r.email
                    ELSE 0
        by_phone == FirstHolding(records, Normalized[r.phone])
        by_whatsapp == FirstHolding(records, Normalized[r.whatsapp_phone])
    IN  IF by_email /= 0 THEN by_email
        ELSE IF by_phone /= 0 THEN by_phone
        ELSE by_whatsapp

\* C27: a call returns the record holding its email even when another
\* record holds its phone or WhatsApp phone; only when no record holds the
\* email does it return the first record holding its phone, and only when
\* none holds that the first holding its WhatsApp phone; it changes no
\* other record
C27_EmailPrecedence ==
    [][resolved' /= resolved =>
          LET e == Expected(customers, resolved')
          IN  /\ e /= 0 => resolved'.ret = customers[e].id
              /\ e = 0 => resolved'.found = "new"
              /\ \A i \in 1..Len(customers) : i /= e => customers'[i] = customers[i]]_vars

\* a call gave the email of one record and a number another record holds:
\* it returned the record with the email
C27_Witness ==
    /\ resolved.found = "email"
    /\ \E i, j \in 1..Len(customers) :
           /\ i /= j
           /\ customers[i].id = resolved.ret
           /\ customers[i].email = resolved.email
           /\ \/ HoldsPhone(customers[j], Normalized[resolved.phone])
              \/ HoldsPhone(customers[j], Normalized[resolved.whatsapp_phone])
           /\ customers[j].email /= resolved.email

\* C28: when the handling of a Twilio webhook fails after
\* find_or_create_customer created the customer, that customer is not in the
\* customers table afterwards
C28_ResolverNeverCommits ==
    (db_session.pc = "idle" /\ db_session.outcome = "failed" /\ db_session.created)
    => \A i \in 1..Len(db_customers) : db_customers[i].id /= db_session.customer

\* the decimal digits
Digits == {"0","1","2","3","4","5","6","7","8","9"}

\* the digits of a str, in order
DigitsOf(chars) == LET IsDigit(ch) == ch \in Digits IN SelectSeq(chars, IsDigit)

\* C29: normalize_phone_number gives None for an empty phone and otherwise
\* "+" followed by the digits of the phone alone, with "1" before them
\* exactly when there are 10
C29_NormalizeDigitsOnly ==
    resolved.ret /= 0 =>
        LET canonical == Normalized[resolved.phone]
            digits == DigitsOf(Spelling[resolved.phone])
        IN  IF ~Truthy(resolved.phone) THEN canonical = None
            ELSE /\ canonical /= None
                 /\ Spelling[canonical] =
                        <<"+">> \o (IF Len(digits) = 10 THEN <<"1">> \o digits ELSE digits)

\* the sends of the campaign to the customer
SendsTo(campaign_id, customer_id) ==
    LET ToCustomer(send) == send.campaign_id = campaign_id /\ send.customer_id = customer_id
    IN  Len(SelectSeq(campaign_sends, ToCustomer))

\* C30: no campaign is sent to a customer more often than its
\* max_sends_per_customer, however many carts the customer filled
C30_MaxSendsPerCustomer ==
    \A i \in 1..Len(Campaigns), customer_id \in CartCustomers :
        SendsTo(Campaigns[i].id, customer_id) <= Campaigns[i].max_sends_per_customer

\* the pairs the next call of find_abandoned_carts_for_campaigns returns
ReadyNow ==
    LET ready == find_abandoned_carts_for_campaigns(Campaigns, cart_items,
                                                    campaign_sends, utcnow)
    IN  {ready[i] : i \in 1..Len(ready)}

\* the number of recorded sends of the campaign for the cart
SendsFor(campaign_id, cart_item_id) ==
    LET ForCart(send) == send.campaign_id = campaign_id /\ send.cart_item_id = cart_item_id
    IN  Len(SelectSeq(campaign_sends, ForCart))

\* the cart was added within 5 minutes of the trigger time of the campaign
AtTriggerTime(cart, campaign) ==
    /\ utcnow - campaign.trigger_delay_minutes - 5 <= cart.added_at
    /\ cart.added_at <= utcnow - campaign.trigger_delay_minutes + 5

OwnOrders(customer_id) ==
    LET Own(order) == order.customer_id = customer_id IN SelectSeq(orders, Own)

\* the sum of the amounts of the orders
RECURSIVE SumOf(_)
SumOf(order_list) ==
    IF order_list = <<>> THEN 0 ELSE Head(order_list).amount + SumOf(Tail(order_list))

\* C32: after recalculate_customer_totals the customer's total_orders is the
\* sum and order_count the number of the customer's own orders; a second call
\* for the customer with no order added since changes nothing, and a call
\* changes no other customer's totals
C32_RecalculateIdempotent ==
    /\ [](recalculated /= 0 =>
            \A i \in 1..Len(customers) :
                customers[i].id = recalculated =>
                    /\ customers[i].total_orders = SumOf(OwnOrders(recalculated))
                    /\ customers[i].order_count = Len(OwnOrders(recalculated)))
    /\ [][/\ (recalculated /= 0 /\ recalculated' = recalculated /\ orders' = orders)
             => \A i \in 1..Len(customers) :
                    /\ customers'[i].total_orders = customers[i].total_orders
                    /\ customers'[i].order_count = customers[i].order_count
          /\ \A i \in 1..Len(customers) :
                 customers[i].id /= recalculated' =>
                     /\ customers'[i].total_orders = customers[i].total_orders
                     /\ customers'[i].order_count = customers[i].order_count]_vars

\* the totals of customer 1 were recalculated from two orders while customer 2,
\* who has an order too, still has no totals
C32_Witness ==
    /\ recalculated = 1
    /\ Len(customers) = 2
    /\ Len(OwnOrders(1)) = 2
    /\ Len(OwnOrders(2)) = 1
    /\ customers[1].order_count = 2
    /\ customers[1].total_orders = SumOf(OwnOrders(1))
    /\ customers[2].order_count = 0

\* the last call of RedisManager followed a call of before on the same key with
\* no time passing between the two
RightAfter(op, before) ==
    /\ redis_call.op = op
    /\ redis_call.prev = before
    /\ redis_call.prev_key = redis_call.key

Creating(p, c) == At(p, "create_new_session", "start") /\ Top(p).cust = c

\* C34: a customer's session that is absent, as it is once clear_session has
\* returned true, becomes present again by the write of a create_new_session
\* only, never by the write of a get_state or an update_state that loaded the
\* session before it was cleared
C34_NoResurrection ==
    [][\A c \in Customers :
          (~HasSession(store, c) /\ HasSession(store', c))
          => \E p \in Procs : Creating(p, c) /\ stack'[p] # stack[p]]_vars

\* the session state names a flow exactly when it names a step
FlowIffStep(state) == (state.current_flow = None) <=> (state.current_step = None)

\* C35: in every stored session, also one written while two requests for the
\* customer are served at once, current_flow is None if and only if
\* current_step is None
C35_FlowIffStep ==
    \A c \in Customers : HasSession(store, c) => FlowIffStep(Session(store, c))

\* the categories a customer's issue is filed under
IssueTypes == {"order_issue", "product_question", "account_problem", "return_refund", "other"}

\* the step whose prompt a response is, None for any other response
PromptStep(response) ==
    IF response = generate_step_response(flow_steps["1_issue_type"]) THEN "1_issue_type"
    ELSE IF \E issue_type \in IssueTypes : response = DetailPrompt(issue_type)
    THEN "2_collect_details"
    ELSE IF \E issue_type \in IssueTypes : response = InfoPrompt(issue_type)
    THEN "3_gather_info"
    ELSE IF \E issue_type \in IssueTypes :
                response = SolutionResponse(generate_solution(issue_type))
    THEN "5_confirmation"
    ELSE None

\* C36: when start_support_flow or process_support_message has returned the
\* prompt of a step, the session is stored and its current_step is that step,
\* also when a store call failed while the request was served
C36_PromptMatchesStep ==
    \A p \in Procs :
        (/\ call[p].status = "returned"
         /\ call[p].op \in {"start_support_flow", "process_support_message"}
         /\ PromptStep(call[p].ret.response) # None)
        => /\ HasSession(store, call[p].cust)
           /\ Session(store, call[p].cust).current_step = PromptStep(call[p].ret.response)

\* the flow counters of a session state agree with its history
CountersAgree(state) ==
    /\ Len(state.flow_history) = state.metadata.total_flows_completed
    /\ state.metadata.total_flows_completed <= state.metadata.total_flows_started

C38_OneCountPerMessage ==
    \A p \in Procs :
        (/\ Returned(p, "process_support_message")
         /\ HadSession(p)
         /\ HasSession(store, call[p].cust)
         /\ After(p).session_id = Before(p).session_id)
        => After(p).metadata.message_count <= Before(p).metadata.message_count + 1

\* C39: start_flow on an existing session, idle or with a flow in progress,
\* leaves session_id, flow_history, metadata.created_at, metadata.message_count
\* and metadata.total_flows_completed as they were, adds exactly 1 to
\* metadata.total_flows_started and replaces the flow in progress: the new flow
\* is at "flow_started" with empty collected_data and no record was written
C39_StartFlowFrame ==
    \A p \in Procs :
        (Returned(p, "start_flow") /\ HadSession(p)) =>
            /\ HasSession(store, call[p].cust)
            /\ After(p).session_id = Before(p).session_id
            /\ After(p).flow_history = Before(p).flow_history
            /\ After(p).metadata.created_at = Before(p).metadata.created_at
            /\ After(p).metadata.message_count = Before(p).metadata.message_count
            /\ After(p).metadata.total_flows_completed
                    = Before(p).metadata.total_flows_completed
            /\ After(p).metadata.total_flows_started
                    = Before(p).metadata.total_flows_started + 1
            /\ After(p).current_flow = call[p].arg
            /\ After(p).current_step = "flow_started"
            /\ After(p).collected_data = EmptyDict

\* start_flow has replaced a flow in progress that had collected data and
\* counted messages, on a session with a completed flow in its history
C39_Witness ==
    \E p \in Procs :
        /\ Returned(p, "start_flow")
        /\ HadSession(p)
        /\ Before(p).current_flow # None
        /\ Before(p).collected_data # EmptyDict
        /\ Before(p).metadata.message_count > 0
        /\ After(p).metadata.total_flows_started = Before(p).metadata.total_flows_started + 1

\* the valid messages a session still needs before its flow is complete: 4 at
\* the issue-type menu, none once the flow is completed, 5 for a step at
\* which the flow is not meant to rest
Remaining(state) ==
    IF state.current_flow = None THEN 0
    ELSE IF state.current_step = "1_issue_type" THEN 4
    ELSE IF state.current_step = "2_collect_details" THEN 3
    ELSE IF state.current_step = "3_gather_info" THEN 2
    ELSE IF state.current_step = "5_confirmation" THEN 1
    ELSE 5

\* the message of the call is valid input at the step the flow stood at
ValidInput(p) ==
    /\ Before(p).current_step = "1_issue_type" => parse_issue_type(call[p].arg) # None
    /\ Before(p).current_step = "5_confirmation" => parse_confirmation(call[p].arg) # None

\* what a call of process_support_message on an active support flow has done
Advanced(p) ==
    /\ HasSession(store, call[p].cust)
    /\ After(p).session_id = Before(p).session_id
    /\ Remaining(After(p)) <= 4
    /\ IF ValidInput(p)
       THEN Remaining(After(p)) < Remaining(Before(p))
       ELSE /\ After(p).current_flow = Before(p).current_flow
            /\ After(p).current_step = Before(p).current_step
    /\ Remaining(After(p)) = 0 =>
            Len(After(p).flow_history) = Len(Before(p).flow_history) + 1

\* C40: on a store that answers and with no expiry, start_support_flow leaves
\* the flow at 1_issue_type; every call of process_support_message returns;
\* an invalid message leaves the step in place and a valid one moves it forward
\* along 1_issue_type, 2_collect_details, 3_gather_info, 5_confirmation,
\* completed, never resting at 4_provide_solution, so that at most 4 valid
\* messages complete the flow, which then has one more flow_history record
C40_FlowTerminates ==
    /\ [](\A p \in Procs :
            /\ (Returned(p, "start_support_flow") /\ HasSession(store, call[p].cust))
                    => Remaining(After(p)) = 4
            /\ (\E current_step \in DOMAIN flow_steps : AtStep(p, current_step))
                    => Advanced(p))
    /\ \A p \in Procs : (call[p].status = "running") ~> (call[p].status = "returned")

\* a product question, the first flow of its session, completed by a valid answer
C40_Witness ==
    \E p \in Procs :
        /\ AtStep(p, "5_confirmation")
        /\ ValidInput(p)
        /\ Remaining(After(p)) = 0
        /\ Last(After(p).flow_history).data_collected.issue_type = "product_question"
        /\ Len(After(p).flow_history) = 1

====
